---- MODULE Spec2Model ----
(***************************************************************************)
(* A model of the zero-bubble pipeline runtime of sail-sg/zero-bubble:     *)
(*   - WeightGradStore            (megatron/core/zbpp_utils.py)            *)
(*   - ActivationStore            (megatron/core/pipeline_parallel/        *)
(*                                 offload.py)                             *)
(*   - PipelineGraph (V schedule) (.../zerobubble/scheduler/zbv.py)        *)
(*   - TrainingIteration and SchedNodeRuntime (.../zerobubble/runtime.py)  *)
(* Each component has its own specification over the shared variables; the *)
(* variables of the other components keep their initial values.            *)
(***************************************************************************)
EXTENDS Integers, Sequences, FiniteSets, TLC

(***************************************************************************)
(* Generic helpers                                                         *)
(***************************************************************************)
None == "None"

Max2(a, b) == IF a >= b THEN a ELSE b

RECURSIVE SumSeq(_)
SumSeq(s) == IF s = <<>> THEN 0 ELSE Head(s) + SumSeq(Tail(s))

RECURSIVE FlattenSeq(_)
FlattenSeq(ss) == IF ss = <<>> THEN <<>> ELSE Head(ss) \o FlattenSeq(Tail(ss))

(***************************************************************************)
(* ======================  WeightGradStore  ============================== *)
(***************************************************************************)
VARIABLES
    args,               \* the process arguments read by is_supported()
    should_split_bw,    \* WeightGradStore.should_split_bw
    cache,              \* WeightGradStore.cache: closures put since the last flush
    weight_grad_queue,  \* WeightGradStore.weight_grad_queue: chunk -> FIFO of units
    executed,           \* observation: ids of the closures run so far, in order
    nput,               \* number of closures created so far (closure identity)
    wres                \* the last call on the store and whether it returned

wgsVars == <<args, should_split_bw, cache, weight_grad_queue, executed, nput, wres>>

\* Bounds of the WeightGradStore model.
MaxPuts == 4
MaxUnits == 2

Weights == {"A", "B"}
Chunks == {0, 1}

\* Argument sets: one that supports splitting and one per reason not to.
ArgsOk == [pipeline_model_parallel_size |-> 2,
           virtual_pipeline_model_parallel_size |-> None,
           overlap_grad_reduce |-> FALSE,
           gradient_accumulation_fusion |-> TRUE,
           transformer_impl |-> "local",
           enable_1f1b_v |-> FALSE]

ArgSets == { ArgsOk,
             [ArgsOk EXCEPT !.pipeline_model_parallel_size = 1],
             [ArgsOk EXCEPT !.enable_1f1b_v = TRUE] }

is_supported(a) ==
    IF a.pipeline_model_parallel_size <= 1 THEN FALSE
    ELSE IF a.virtual_pipeline_model_parallel_size # None THEN FALSE
    ELSE IF a.overlap_grad_reduce THEN FALSE
    ELSE IF ~a.gradient_accumulation_fusion THEN FALSE
    ELSE IF a.transformer_impl = "transformer_engine" THEN FALSE
    ELSE IF a.enable_1f1b_v THEN FALSE
    ELSE TRUE

\* split_bw that reads the flag without asking is_supported.
split_bw_flag(a, flag) == flag

split_bw(a, flag) == IF ~is_supported(a) THEN FALSE ELSE flag

\* Running the closures of a sequence in order: func(*pre_func(async_op=False)).
RunAll(log, closures) == log \o [i \in 1..Len(closures) |-> closures[i].id]

\* A pop that runs the oldest unit of the chunk and leaves it queued.
WeightGradStore_pop_peek(queue, log, chunk) ==
    IF Len(queue[chunk]) > 0
    THEN [queue |-> queue, log |-> RunAll(log, Head(queue[chunk])), ok |-> TRUE]
    ELSE [queue |-> queue, log |-> log, ok |-> FALSE]

\* pop: run the oldest unit of the chunk, or raise on an empty queue.
WeightGradStore_pop_lifo(queue, log, chunk) ==
    IF Len(queue[chunk]) > 0
    THEN LET n == Len(queue[chunk])
             stored_grads == queue[chunk][n]
         IN [queue |-> [queue EXCEPT ![chunk] = SubSeq(queue[chunk], 1, n - 1)],
             log |-> RunAll(log, stored_grads), ok |-> TRUE]
    ELSE [queue |-> queue, log |-> log, ok |-> FALSE]

WeightGradStore_pop(queue, log, chunk) ==
    IF Len(queue[chunk]) > 0
    THEN LET stored_grads == Head(queue[chunk])
         IN [queue |-> [queue EXCEPT ![chunk] = Tail(queue[chunk])],
             log |-> RunAll(log, stored_grads), ok |-> TRUE]
    ELSE [queue |-> queue, log |-> log, ok |-> FALSE]

\* clear, first loop: drain the queue into weight_grad_tasks (one list per
\* position); the length assertion fails after the unit has been taken.
RECURSIVE ClearDrain(_, _)
ClearDrain(q, tasks) ==
    IF Len(q) = 0 THEN [q |-> q, tasks |-> tasks, ok |-> TRUE]
    ELSE LET stored_grads == Head(q)
             t0 == IF Len(tasks) = 0
                   THEN [i \in 1..Len(stored_grads) |-> <<>>]
                   ELSE tasks
         IN IF Len(t0) # Len(stored_grads)
            THEN [q |-> Tail(q), tasks |-> tasks, ok |-> FALSE]
            ELSE ClearDrain(Tail(q),
                            [i \in 1..Len(t0) |-> Append(t0[i], stored_grads[i])])

\* clear, second loop, one position: run its tasks in order; "assert param
\* is weight" fails before the first task whose weight differs.
RECURSIVE ClearRunTasks(_, _, _)
ClearRunTasks(tasks, param, log) ==
    IF tasks = <<>> THEN [log |-> log, ok |-> TRUE]
    ELSE LET t == Head(tasks)
             p == IF param = None THEN t.weight ELSE param
         IN IF p # t.weight THEN [log |-> log, ok |-> FALSE]
            ELSE ClearRunTasks(Tail(tasks), p, Append(log, t.id))

\* The second loop walking units first, positions second (plain FIFO replay).
ClearRun_fifo(weight_grad_tasks, log) ==
    IF weight_grad_tasks = <<>> THEN [log |-> log, ok |-> TRUE]
    ELSE LET nu == Len(weight_grad_tasks[1])
             np == Len(weight_grad_tasks)
             flat == [k \in 1..(nu * np) |->
                        weight_grad_tasks[((k - 1) % np) + 1][((k - 1) \div np) + 1]]
         IN [log |-> RunAll(log, flat), ok |-> TRUE]

RECURSIVE ClearRun(_, _)
ClearRun(weight_grad_tasks, log) ==
    IF weight_grad_tasks = <<>> THEN [log |-> log, ok |-> TRUE]
    ELSE LET r == ClearRunTasks(Head(weight_grad_tasks), None, log)
         IN IF ~r.ok THEN r ELSE ClearRun(Tail(weight_grad_tasks), r.log)

WeightGradStore_clear(queue, log, chunk) ==
    LET d == ClearDrain(queue[chunk], <<>>)
        q2 == [queue EXCEPT ![chunk] = d.q]
    IN IF ~d.ok THEN [queue |-> q2, log |-> log, ok |-> FALSE]
       ELSE LET r == ClearRun(d.tasks, log)
            IN [queue |-> q2, log |-> r.log, ok |-> r.ok]

InitWGS ==
    /\ args \in ArgSets
    /\ should_split_bw = FALSE
    /\ cache = <<>>
    /\ weight_grad_queue = [c \in Chunks |-> <<>>]
    /\ executed = <<>>
    /\ nput = 0
    /\ wres = [op |-> "init", chunk |-> 0, ok |-> TRUE]

IdleWGS ==
    /\ args = ArgsOk
    /\ should_split_bw = FALSE
    /\ cache = <<>>
    /\ weight_grad_queue = [c \in Chunks |-> <<>>]
    /\ executed = <<>>
    /\ nput = 0
    /\ wres = [op |-> "init", chunk |-> 0, ok |-> TRUE]

enable_split_bw ==
    /\ should_split_bw' = TRUE
    /\ wres' = [op |-> "enable_split_bw", chunk |-> 0, ok |-> TRUE]
    /\ UNCHANGED <<args, cache, weight_grad_queue, executed, nput>>

disable_split_bw ==
    /\ should_split_bw' = FALSE
    /\ wres' = [op |-> "disable_split_bw", chunk |-> 0, ok |-> TRUE]
    /\ UNCHANGED <<args, cache, weight_grad_queue, executed, nput>>

WeightGradStore_put(weight) ==
    /\ nput < MaxPuts
    /\ IF split_bw(args, should_split_bw) = TRUE
       THEN /\ cache' = Append(cache, [weight |-> weight, id |-> nput + 1])
            /\ nput' = nput + 1
            /\ wres' = [op |-> "put", chunk |-> 0, ok |-> TRUE]
       ELSE /\ wres' = [op |-> "put", chunk |-> 0, ok |-> FALSE]
            /\ UNCHANGED <<cache, nput>>
    /\ UNCHANGED <<args, should_split_bw, weight_grad_queue, executed>>

WeightGradStore_flush(chunk) ==
    /\ Len(weight_grad_queue[0]) + Len(weight_grad_queue[1]) < MaxUnits
    /\ weight_grad_queue' = [weight_grad_queue EXCEPT ![chunk] = Append(@, cache)]
    /\ cache' = <<>>
    /\ wres' = [op |-> "flush", chunk |-> chunk, ok |-> TRUE]
    /\ UNCHANGED <<args, should_split_bw, executed, nput>>

Pop(chunk) ==
    LET r == WeightGradStore_pop(weight_grad_queue, executed, chunk)
    IN /\ weight_grad_queue' = r.queue
       /\ executed' = r.log
       /\ wres' = [op |-> "pop", chunk |-> chunk, ok |-> r.ok]
       /\ UNCHANGED <<args, should_split_bw, cache, nput>>

Clear(chunk) ==
    LET r == WeightGradStore_clear(weight_grad_queue, executed, chunk)
    IN /\ weight_grad_queue' = r.queue
       /\ executed' = r.log
       /\ wres' = [op |-> "clear", chunk |-> chunk, ok |-> r.ok]
       /\ UNCHANGED <<args, should_split_bw, cache, nput>>

(***************************************************************************)
(* ======================  ActivationStore  ============================== *)
(* Tensors.  A storage is an array of elements; a tensor is a strided view *)
(* of one storage: (ptr, storage_offset, shape, stride, dtype).  Lists are *)
(* 1-based here: slot k is index k-1 of the source.                        *)
(***************************************************************************)
\* The element at position pos of storage ptr (every element is distinct).
Val(ptr, pos) == ptr * 10 + pos

RECURSIVE Prod(_)
Prod(s) == IF s = <<>> THEN 1 ELSE Head(s) * Prod(Tail(s))

numel(t) == Prod(t.shape)

\* Element offsets (relative to the view's base) of a strided view of rank
\* one or two, in logical (row-major) order: what as_strided addresses.
StridedIdx(shape, stride) ==
    IF Len(shape) = 1
    THEN [i \in 1..shape[1] |-> (i - 1) * stride[1]]
    ELSE [k \in 1..(shape[1] * shape[2]) |->
            ((k - 1) \div shape[2]) * stride[1] + ((k - 1) % shape[2]) * stride[2]]

\* The elements of a tensor that lives in an accelerator storage.
Contents(t) ==
    LET ix == StridedIdx(t.shape, t.stride)
    IN [i \in 1..Len(ix) |-> Val(t.ptr, t.off + ix[i])]

Tensor(ptr, off, shape, stride, dtype) ==
    [ptr |-> ptr, off |-> off, shape |-> shape, stride |-> stride,
     dtype |-> dtype, param |-> FALSE]

T_a  == Tensor(1, 0, <<2, 2>>, <<2, 1>>, "half")   \* contiguous 2x2
T_aT == Tensor(1, 0, <<2, 2>>, <<1, 2>>, "half")   \* its transpose: a dense view
T_s  == Tensor(1, 0, <<4>>, <<2>>, "half")         \* every second element of 8
T_b  == Tensor(2, 0, <<2>>, <<1>>, "float")        \* another storage and dtype
T_p  == [Tensor(3, 0, <<2>>, <<1>>, "half") EXCEPT !.param = TRUE]  \* a Parameter

TensorPool == {T_a, T_aT, T_s, T_b, T_p}

is_a_view(x, y) == x.ptr = y.ptr /\ x.off = y.off /\ numel(x) = numel(y)

tensor_info(t) == [shape |-> t.shape, layout |-> "strided", dtype |-> t.dtype,
                   stride |-> t.stride]

(***************************************************************************)
(* _allocate_cpu_buffers: packing of the recorded slots into host bins.    *)
(***************************************************************************)
alignment == 64
max_split == 4

\* The dimensions with shape != 1 as (dim, stride) pairs sorted by stride.
RECURSIVE DimsNotOne(_, _)
DimsNotOne(shape, i) ==
    IF i > Len(shape) THEN <<>>
    ELSE (IF shape[i] # 1 THEN <<i>> ELSE <<>>) \o DimsNotOne(shape, i + 1)

IdStride(shape, stride) ==
    LET dims == DimsNotOne(shape, 1)
    IN IF Len(dims) = 2 /\ stride[dims[2]] < stride[dims[1]]
       THEN <<dims[2], dims[1]>>
       ELSE dims

\* size_of_tensor: the "not continuous" assertion, then the aligned size.
RECURSIVE SizeWalk(_, _, _, _)
SizeWalk(dims, shape, stride, size) ==
    IF dims = <<>> THEN [ok |-> TRUE, size |-> size]
    ELSE IF size # stride[Head(dims)] THEN [ok |-> FALSE, size |-> size]
    ELSE SizeWalk(Tail(dims), shape, stride, size * shape[Head(dims)])

size_of_tensor_noalign(shape, stride) ==
    LET w == SizeWalk(IdStride(shape, stride), shape, stride, 1)
    IN [ok |-> w.ok, size |-> w.size]

size_of_tensor(shape, stride) ==
    LET w == SizeWalk(IdStride(shape, stride), shape, stride, 1)
    IN [ok |-> w.ok,
        size |-> ((w.size + (alignment - 1)) \div alignment) * alignment]

RECURSIVE Pow2AtLeast(_, _)
Pow2AtLeast(p, x) == IF p >= x THEN p ELSE Pow2AtLeast(2 * p, x)

\* 2 ** (x-1).bit_length()
nearest_power_of_2(x) == IF x <= 0 THEN 2 ELSE Pow2AtLeast(1, x)

RECURSIVE Pow2(_)
Pow2(i) == IF i = 0 THEN 1 ELSE 2 * Pow2(i - 1)

\* sorted(tensors, key=size, reverse=True): stable, largest first.
RECURSIVE InsertDesc(_, _)
InsertDesc(sorted, x) ==
    IF sorted = <<>> THEN <<x>>
    ELSE IF Head(sorted).size >= x.size
         THEN <<Head(sorted)>> \o InsertDesc(Tail(sorted), x)
         ELSE <<x>> \o sorted

RECURSIVE SortDesc(_)
SortDesc(ts) ==
    IF ts = <<>> THEN <<>>
    ELSE InsertDesc(SortDesc(SubSeq(ts, 1, Len(ts) - 1)), ts[Len(ts)])

\* [0] * n
RECURSIVE Zeros(_)
Zeros(n) == IF n = 0 THEN <<>> ELSE Append(Zeros(n - 1), 0)

\* The bins of a turn with the unused ones left in.
Positive_all(s) == s

\* [x for x in bins if x > 0]
RECURSIVE Positive(_)
Positive(s) ==
    IF s = <<>> THEN <<>>
    ELSE (IF Head(s) > 0 THEN <<Head(s)>> ELSE <<>>) \o Positive(Tail(s))

\* One turn of the counter over the bin sizes (the head of the while loop).
RECURSIVE Carry(_, _, _)
Carry(bins, bin_size, i) ==
    IF i < 2 THEN bins
    ELSE IF bins[i] > bin_size[i]
         THEN Carry([bins EXCEPT ![i] = 0, ![i - 1] = bins[i - 1] + bin_size[i - 1]],
                    bin_size, i - 1)
         ELSE Carry(bins, bin_size, i - 1)

NextBins(bins, bin_size) ==
    Carry([bins EXCEPT ![max_split] = bins[max_split] + bin_size[max_split]],
          bin_size, max_split)

\* First fit of one tensor: the first bin with room, or 0.
FirstFit(current_bin, solution_bins, size) ==
    LET ok == {i \in 1..Len(solution_bins) : current_bin[i] + size <= solution_bins[i]}
    IN IF ok = {} THEN 0 ELSE CHOOSE i \in ok : \A j \in ok : i <= j

FirstFit_last(current_bin, solution_bins, size) ==
    LET ok == {i \in 1..Len(solution_bins) : current_bin[i] + size <= solution_bins[i]}
    IN IF ok = {} THEN 0 ELSE CHOOSE i \in ok : \A j \in ok : i >= j

\* The for loop over the sorted tensors; solution maps id -> (bin, offset).
RECURSIVE Fit(_, _, _, _)
Fit(tensors, solution_bins, current_bin, solution) ==
    IF tensors = <<>>
    THEN [fit |-> TRUE, current_bin |-> current_bin, solution |-> solution]
    ELSE LET t == Head(tensors)
             i == FirstFit(current_bin, solution_bins, t.size)
         IN IF i = 0
            THEN [fit |-> FALSE, current_bin |-> current_bin, solution |-> solution]
            ELSE Fit(Tail(tensors), solution_bins,
                     [current_bin EXCEPT ![i] = current_bin[i] + t.size],
                     solution @@ (t.id :> [bin |-> i, offset |-> current_bin[i]]))

\* The while True loop.  It ends by the turn in which the first bin alone
\* holds everything; MaxTurns only cuts the walk of inputs with no such turn.
MaxTurns == 16

RECURSIVE Search(_, _, _, _, _)
Search(tensors, total_size, bin_size, bins, turn) ==
    LET b == NextBins(bins, bin_size)
        solution_bins == Positive(b)
    IN IF turn > MaxTurns THEN [ok |-> FALSE, loops |-> TRUE]
       ELSE IF SumSeq(solution_bins) < total_size
       THEN Search(tensors, total_size, bin_size, b, turn + 1)
       ELSE LET f == Fit(tensors, solution_bins,
                         Zeros(Len(solution_bins)), <<>>)
            IN IF ~f.fit THEN Search(tensors, total_size, bin_size, b, turn + 1)
               ELSE [ok |-> /\ Cardinality(DOMAIN f.solution) = Len(tensors)
                            /\ \A i \in 1..Len(f.current_bin) : f.current_bin[i] > 0,
                     loops |-> FALSE,
                     bins |-> f.current_bin, solution |-> f.solution,
                     solution_bins |-> solution_bins, turns |-> turn]

\* allocate_offset that returns the sizes of the slots it tried (solution_bins)
\* in place of what the tensors occupy in them (current_bin).
allocate_offset_slots(tensors) ==
    LET total_size == SumSeq([i \in 1..Len(tensors) |-> tensors[i].size])
        aligned_size == nearest_power_of_2(total_size)
        bin_size == [i \in 1..max_split |-> aligned_size \div Pow2(i - 1)]
        r == Search(SortDesc(tensors), total_size, bin_size,
                    Zeros(max_split), 1)
    IN IF r.loops THEN r ELSE [r EXCEPT !.bins = r.solution_bins]

\* allocate_offset(tensors): tensors is a sequence of [size, id].
allocate_offset(tensors) ==
    LET total_size == SumSeq([i \in 1..Len(tensors) |-> tensors[i].size])
        aligned_size == nearest_power_of_2(total_size)
        bin_size == [i \in 1..max_split |-> aligned_size \div Pow2(i - 1)]
    IN Search(SortDesc(tensors), total_size, bin_size,
              Zeros(max_split), 1)

(***************************************************************************)
(* The ActivationStore object.  An absent tensor (a None entry of          *)
(* _gpu_store) is NoTensor, an absent buffer dictionary is NoBuffer.       *)
(***************************************************************************)
NoTensor == [ptr |-> 0, off |-> 0, shape |-> <<>>, stride |-> <<>>,
             dtype |-> "none", param |-> FALSE, mem |-> "none", bin |-> 0]

\* A tensor of the pool as the hooks see it: it lives in accelerator memory.
Acc(t) == [ptr |-> t.ptr, off |-> t.off, shape |-> t.shape, stride |-> t.stride,
           dtype |-> t.dtype, param |-> t.param, mem |-> "acc", bin |-> 0]

DTypes == <<"half", "float">>
DTypeIdx(d) == IF d = "half" THEN 1 ELSE 2

\* torch.as_strided(buffer[dtype][bin], shape, stride, offset): a view of a bin
\* of the continuous buffer; the bin is a storage of its own.
BufPtr(dtype, bin) == 100 + 10 * DTypeIdx(dtype) + bin

as_strided(dtype, bin, shape, stride, offset) ==
    [ptr |-> BufPtr(dtype, bin), off |-> offset, shape |-> shape,
     stride |-> stride, dtype |-> dtype, param |-> FALSE, mem |-> "buf",
     bin |-> bin]

NoBuffer == [d \in {"None"} |-> <<>>]
EmptyDict == [d \in {} |-> <<>>]

State_NEW == "NEW"
State_SAVING == "SAVING"
State_OFFLOADED == "OFFLOADED"
State_OFFLOAD_RELEASED == "OFFLOAD_RELEASED"
State_RESUME_PREPARED == "RESUME_PREPARED"
State_RESUMED == "RESUMED"
State_RESUME_RELEASED == "RESUME_RELEASED"

\* ActivationStore.__init__
ActivationStore_init ==
    [_state |-> State_NEW,
     _offloaded |-> FALSE,
     _gpu_store |-> <<>>,
     _offload_tensor_info |-> <<>>,
     _continuous_cpu_buffer |-> NoBuffer,
     _continuous_gpu_buffer |-> NoBuffer,
     index_offset |-> <<>>,
     _index_cpu_buffer |-> <<>>,
     _index_gpu_buffer |-> <<>>,
     cpu_data |-> EmptyDict,      \* the cells of the host bins written so far
     gpu_data |-> EmptyDict,      \* the cells of the accelerator bins written
     junk |-> 0]                  \* what torch.empty left in the other cells

\* The element of a bin at a position: a written cell or what was there.
Cell(data, junk, dtype, bin, pos) ==
    IF <<dtype, bin, pos>> \in DOMAIN data THEN data[<<dtype, bin, pos>>] ELSE junk

\* The elements of a tensor, in logical order.
TensorContents(s, t) ==
    IF t.mem = "acc" THEN Contents(t)
    ELSE IF t.mem = "buf"
    THEN LET ix == StridedIdx(t.shape, t.stride)
         IN [i \in 1..Len(ix) |-> Cell(s.gpu_data, s.junk, t.dtype, t.bin, t.off + ix[i])]
    ELSE <<>>

\* The assertion of _change_state made after the assignment.
_change_state_late(s, from_state, to_state) ==
    IF s._state \in from_state
    THEN [s |-> [s EXCEPT !._state = to_state], ok |-> TRUE]
    ELSE [s |-> [s EXCEPT !._state = to_state], ok |-> FALSE]

\* _change_state: ok is the outcome of the assertion.
_change_state(s, from_state, to_state) ==
    IF s._state \in from_state
    THEN [s |-> [s EXCEPT !._state = to_state], ok |-> TRUE]
    ELSE [s |-> s, ok |-> FALSE]

(***************************************************************************)
(* The save hook.  A handle is what the hook returns to autograd.          *)
(***************************************************************************)
Handle(type) ==
    [type |-> type, tensor |-> NoTensor, index |-> 0, dtype |-> "none",
     shape |-> <<>>, stride |-> <<>>, offset |-> 0, parents |-> <<>>]

\* partial_recompute._next_recompute_tensor when nothing is armed.
NoRecompute == [armed |-> FALSE, tensor |-> NoTensor, parents |-> <<>>]

\* _save_tensor that answers a matching save without consuming the request.
PartialRecompute_save_tensor_keep(p, tensor) ==
    IF p.armed /\ is_a_view(tensor, p.tensor)
    THEN [type |-> "RECOMPUTE", parents |-> p.parents, tensor |-> NoTensor,
          p |-> p]
    ELSE [type |-> "PASS_THROUGH", parents |-> <<>>, tensor |-> tensor, p |-> p]

\* PartialRecompute._save_tensor: what it returns (the packed parents of a
\* RECOMPUTE, the tensor of a PASS_THROUGH) and the request left armed.
PartialRecompute_save_tensor(p, tensor) ==
    IF p.armed /\ is_a_view(tensor, p.tensor)
    THEN [type |-> "RECOMPUTE", parents |-> p.parents, tensor |-> NoTensor,
          p |-> NoRecompute]
    ELSE [type |-> "PASS_THROUGH", parents |-> <<>>, tensor |-> tensor, p |-> p]

\* _recompute_tensor without its assertion: the new request replaces the old.
_recompute_tensor_overwrite(p, tensor, parents) ==
    [p |-> [armed |-> TRUE, tensor |-> tensor, parents |-> parents], ok |-> TRUE]

\* PartialRecompute._recompute_tensor: ok is the outcome of the assertion.
_recompute_tensor(p, tensor, parents) ==
    IF p.armed THEN [p |-> p, ok |-> FALSE]
    ELSE [p |-> [armed |-> TRUE, tensor |-> tensor, parents |-> parents],
          ok |-> TRUE]

\* The first stored tensor the scan of _gpu_store stops at: an alias of the
\* tensor, or a None entry (on which is_a_view raises); 0 when there is none.
FirstView(gpu_store, tensor) ==
    LET hit == {i \in 1..Len(gpu_store) :
                   \/ gpu_store[i].mem = "none"
                   \/ is_a_view(tensor, gpu_store[i])}
    IN IF hit = {} THEN 0 ELSE CHOOSE i \in hit : \A j \in hit : i <= j

\* The store step of _save_tensor recording the descriptor of the tensor anew
\* where it differs from the recorded one.
SaveStore_rerecord(s, tensor) ==
    LET i == FirstView(s._gpu_store, tensor)
        n == Len(s._gpu_store) + 1
        s1 == [s EXCEPT !._gpu_store = Append(@, tensor)]
    IN IF i > 0
       THEN IF s._gpu_store[i].mem = "none"
            THEN [s |-> s, ok |-> FALSE, ret |-> Handle("none")]
            ELSE [s |-> s, ok |-> TRUE,
                  ret |-> [Handle("ALIAS") EXCEPT
                             !.dtype = tensor.dtype, !.index = i,
                             !.shape = tensor.shape, !.stride = tensor.stride,
                             !.offset = tensor.off - s._gpu_store[i].off]]
       ELSE IF Len(s._offload_tensor_info) < n
       THEN [s |-> [s1 EXCEPT !._offload_tensor_info = Append(@, tensor_info(tensor))],
             ok |-> TRUE, ret |-> [Handle("OFFLOAD") EXCEPT !.index = n]]
       ELSE [s |-> [s1 EXCEPT !._offload_tensor_info[n] = tensor_info(tensor)],
             ok |-> TRUE, ret |-> [Handle("OFFLOAD") EXCEPT !.index = n]]

\* _save_tensor from the alias scan on (lines 142-156), for a tensor that is
\* neither a Parameter nor claimed by the partial recompute.
SaveStore(s, tensor) ==
    LET i == FirstView(s._gpu_store, tensor)
        n == Len(s._gpu_store) + 1
        s1 == [s EXCEPT !._gpu_store = Append(@, tensor)]
    IN IF i > 0
       THEN IF s._gpu_store[i].mem = "none"
            THEN [s |-> s, ok |-> FALSE, ret |-> Handle("none")]
            ELSE [s |-> s, ok |-> TRUE,
                  ret |-> [Handle("ALIAS") EXCEPT
                             !.dtype = tensor.dtype, !.index = i,
                             !.shape = tensor.shape, !.stride = tensor.stride,
                             !.offset = tensor.off - s._gpu_store[i].off]]
       ELSE IF Len(s._offload_tensor_info) < n
       THEN [s |-> [s1 EXCEPT !._offload_tensor_info = Append(@, tensor_info(tensor))],
             ok |-> TRUE, ret |-> [Handle("OFFLOAD") EXCEPT !.index = n]]
       ELSE IF s._offload_tensor_info[n] = tensor_info(tensor)
       THEN [s |-> s1, ok |-> TRUE, ret |-> [Handle("OFFLOAD") EXCEPT !.index = n]]
       ELSE [s |-> s1, ok |-> FALSE, ret |-> Handle("none")]

\* _save_tensor of a tensor the partial recompute does not claim (a parent
\* of a recomputed tensor is saved this way: the request is consumed before).
SavePlain(s, tensor) ==
    IF s._offloaded THEN [s |-> s, ok |-> FALSE, ret |-> Handle("none")]
    ELSE LET c == _change_state(s, {State_NEW, State_SAVING}, State_SAVING)
         IN IF ~c.ok THEN [s |-> c.s, ok |-> FALSE, ret |-> Handle("none")]
            ELSE IF tensor.param
            THEN [s |-> c.s, ok |-> TRUE,
                  ret |-> [Handle("PASS_THROUGH") EXCEPT !.tensor = tensor]]
            ELSE SaveStore(c.s, tensor)

\* [self._save_tensor(x) for x in parents]
RECURSIVE SaveParents(_, _, _)
SaveParents(s, parents, handles) ==
    IF parents = <<>> THEN [s |-> s, ok |-> TRUE, handles |-> handles]
    ELSE LET r == SavePlain(s, Head(parents))
         IN IF ~r.ok THEN [s |-> r.s, ok |-> FALSE, handles |-> handles]
            ELSE SaveParents(r.s, Tail(parents), Append(handles, r.ret))

\* ActivationStore._save_tensor; p is partial_recompute's armed request.
_save_tensor(s, p, tensor) ==
    IF s._offloaded THEN [s |-> s, p |-> p, ok |-> FALSE, ret |-> Handle("none")]
    ELSE LET c == _change_state(s, {State_NEW, State_SAVING}, State_SAVING)
             recompute == PartialRecompute_save_tensor(p, tensor)
         IN IF ~c.ok THEN [s |-> c.s, p |-> p, ok |-> FALSE, ret |-> Handle("none")]
            ELSE IF tensor.param
            THEN [s |-> c.s, p |-> p, ok |-> TRUE,
                  ret |-> [Handle("PASS_THROUGH") EXCEPT !.tensor = tensor]]
            ELSE IF recompute.type = "RECOMPUTE"
            THEN LET ps == SaveParents(c.s, recompute.parents, <<>>)
                 IN [s |-> ps.s, p |-> recompute.p, ok |-> ps.ok,
                     ret |-> [Handle("RECOMPUTE") EXCEPT !.parents = ps.handles]]
            ELSE LET r == SaveStore(c.s, tensor)
                 IN [s |-> r.s, p |-> p, ok |-> r.ok, ret |-> r.ret]

(***************************************************************************)
(* offload and _allocate_cpu_buffers                                       *)
(***************************************************************************)
\* type_tensors[dtype]: the (size, id) pairs of the slots of one dtype.
RECURSIVE TypeTensors(_, _, _)
TypeTensors(infos, dtype, id) ==
    IF id > Len(infos) THEN <<>>
    ELSE (IF infos[id].dtype = dtype
          THEN <<[size |-> size_of_tensor(infos[id].shape, infos[id].stride).size,
                  id |-> id]>>
          ELSE <<>>) \o TypeTensors(infos, dtype, id + 1)

SeenDTypes(infos) == {infos[i].dtype : i \in 1..Len(infos)}

\* _allocate_cpu_buffers; junk is what the fresh host memory holds.
_allocate_cpu_buffers(s, junk) ==
    IF s._continuous_cpu_buffer # NoBuffer THEN [s |-> s, ok |-> TRUE]
    ELSE LET infos == s._offload_tensor_info
             s1 == [s EXCEPT !.index_offset = <<>>]
             sized == \A i \in 1..Len(infos) :
                         /\ infos[i].layout = "strided"
                         /\ size_of_tensor(infos[i].shape, infos[i].stride).ok
             alloc == [d \in SeenDTypes(infos) |->
                          allocate_offset(TypeTensors(infos, d, 1))]
         IN IF ~sized THEN [s |-> s1, ok |-> FALSE]
            ELSE IF \E d \in DOMAIN alloc : ~alloc[d].ok
            THEN [s |-> [s1 EXCEPT !._continuous_cpu_buffer = EmptyDict], ok |-> FALSE]
            ELSE LET index_offset == [i \in 1..Len(infos) |->
                                         alloc[infos[i].dtype].solution[i]]
                     views == [i \in 1..Len(infos) |->
                                 as_strided(infos[i].dtype, index_offset[i].bin,
                                            infos[i].shape, infos[i].stride,
                                            index_offset[i].offset)]
                 IN [s |-> [s1 EXCEPT
                              !._continuous_cpu_buffer =
                                  [d \in DOMAIN alloc |-> alloc[d].bins],
                              !.index_offset = index_offset,
                              !._index_cpu_buffer = @ \o views,
                              !.cpu_data = EmptyDict,
                              !.junk = junk],
                     ok |-> TRUE]

\* buffer.copy_(tensor): the cells of the view take the tensor's elements.
copy_(data, buffer, elems) ==
    LET ix == StridedIdx(buffer.shape, buffer.stride)
        keys == {<<buffer.dtype, buffer.bin, buffer.off + ix[k]>> : k \in 1..Len(ix)}
        at(key) == CHOOSE k \in 1..Len(ix) :
                      key = <<buffer.dtype, buffer.bin, buffer.off + ix[k]>>
    IN [key \in (DOMAIN data) \cup keys |->
           IF key \in keys THEN elems[at(key)] ELSE data[key]]

\* The copy loop of offload over _gpu_store, from slot index on.
RECURSIVE OffloadCopy(_, _)
OffloadCopy(s, index) ==
    IF index > Len(s._gpu_store) THEN [s |-> s, ok |-> TRUE]
    ELSE IF index > Len(s._index_cpu_buffer) THEN [s |-> s, ok |-> FALSE]
    ELSE LET buffer == s._index_cpu_buffer[index]
             tensor == s._gpu_store[index]
         IN IF tensor.mem = "none" \/ tensor.shape # buffer.shape
            THEN [s |-> s, ok |-> FALSE]
            ELSE OffloadCopy(
                    [s EXCEPT !.cpu_data = copy_(@, buffer, TensorContents(s, tensor))],
                    index + 1)

offload(s, junk) ==
    LET c == _change_state(s, {State_SAVING}, State_OFFLOADED)
    IN IF ~c.ok THEN [s |-> c.s, ok |-> FALSE]
       ELSE IF c.s._offloaded THEN [s |-> c.s, ok |-> FALSE]
       ELSE LET a == _allocate_cpu_buffers(c.s, junk)
            IN IF ~a.ok THEN a
               ELSE LET o == OffloadCopy(a.s, 1)
                    IN IF ~o.ok THEN o
                       ELSE [s |-> [o.s EXCEPT !._offloaded = TRUE], ok |-> TRUE]

offload_release(s) ==
    LET c == _change_state(s, {State_OFFLOADED}, State_OFFLOAD_RELEASED)
    IN IF ~c.ok THEN [s |-> c.s, ok |-> FALSE]
       ELSE IF ~c.s._offloaded THEN [s |-> c.s, ok |-> FALSE]
       ELSE [s |-> [c.s EXCEPT !._gpu_store = <<>>], ok |-> TRUE]

(***************************************************************************)
(* prepare_resume, resume, the resume hook, resume_release, reset_state    *)
(***************************************************************************)
prepare_resume(s) ==
    LET c == _change_state(s, {State_OFFLOAD_RELEASED}, State_RESUME_PREPARED)
        infos == c.s._offload_tensor_info
        s1 == [c.s EXCEPT !._continuous_gpu_buffer = c.s._continuous_cpu_buffer,
                          !.gpu_data = EmptyDict]
        k == IF Len(infos) <= Len(s1.index_offset)
             THEN Len(infos) ELSE Len(s1.index_offset)
        views == [i \in 1..k |->
                    as_strided(infos[i].dtype, s1.index_offset[i].bin,
                               infos[i].shape, infos[i].stride,
                               s1.index_offset[i].offset)]
    IN IF ~c.ok THEN [s |-> c.s, ok |-> FALSE]
       ELSE IF ~c.s._offloaded THEN [s |-> c.s, ok |-> FALSE]
       ELSE IF c.s._continuous_cpu_buffer = NoBuffer THEN [s |-> c.s, ok |-> FALSE]
       ELSE IF s1._index_gpu_buffer # <<>> THEN [s |-> s1, ok |-> FALSE]
       ELSE [s |-> [s1 EXCEPT !._index_gpu_buffer = views,
                              !._gpu_store = @ \o views],
             ok |-> k = Len(infos)]

resume(s) ==
    LET c == _change_state(s, {State_RESUME_PREPARED}, State_RESUMED)
    IN IF ~c.ok THEN [s |-> c.s, ok |-> FALSE]
       ELSE IF ~c.s._offloaded THEN [s |-> c.s, ok |-> FALSE]
       ELSE IF DOMAIN c.s._continuous_gpu_buffer # DOMAIN c.s._continuous_cpu_buffer
       THEN [s |-> c.s, ok |-> FALSE]
       ELSE [s |-> [c.s EXCEPT !.gpu_data = c.s.cpu_data, !._offloaded = FALSE],
             ok |-> TRUE]

\* What a resume hook call gives back: the tensor's elements in logical order
\* and the memory it views (none: the call returned None).
Returned(s, t) ==
    [none |-> t.mem = "none", elems |-> TensorContents(s, t),
     loc |-> <<t.ptr, t.off>>, from |-> <<>>]

\* The last element offset a strided view addresses.
MaxIdx(shape, stride) ==
    LET ix == StridedIdx(shape, stride)
    IN IF Len(ix) = 0 THEN 0
       ELSE CHOOSE m \in {ix[i] : i \in 1..Len(ix)} :
               \A i \in 1..Len(ix) : ix[i] <= m

\* _resume_tensor of a handle that is not RECOMPUTE, leaving the slot of an
\* OFFLOAD handle in the list.
ResumePlain_keep_slot(s, h) ==
    IF s._offloaded THEN [s |-> s, ok |-> FALSE, ret |-> Returned(s, NoTensor)]
    ELSE LET c == _change_state(s, {State_RESUMED}, State_RESUMED)
         IN IF ~c.ok THEN [s |-> c.s, ok |-> FALSE, ret |-> Returned(s, NoTensor)]
            ELSE IF h.type = "PASS_THROUGH"
            THEN [s |-> c.s, ok |-> TRUE, ret |-> Returned(c.s, h.tensor)]
            ELSE IF h.type = "ALIAS"
            THEN IF \/ h.index > Len(c.s.index_offset)
                    \/ h.dtype \notin DOMAIN c.s._continuous_gpu_buffer
                 THEN [s |-> c.s, ok |-> FALSE, ret |-> Returned(s, NoTensor)]
                 ELSE LET bo == c.s.index_offset[h.index]
                          bins == c.s._continuous_gpu_buffer[h.dtype]
                      IN IF \/ bo.bin > Len(bins)
                            \/ bo.offset + h.offset + MaxIdx(h.shape, h.stride)
                                  >= bins[bo.bin]
                         THEN [s |-> c.s, ok |-> FALSE, ret |-> Returned(s, NoTensor)]
                         ELSE [s |-> c.s, ok |-> TRUE,
                               ret |-> Returned(c.s,
                                          as_strided(h.dtype, bo.bin, h.shape,
                                                     h.stride, bo.offset + h.offset))]
            ELSE IF h.index > Len(c.s._gpu_store)
            THEN [s |-> c.s, ok |-> FALSE, ret |-> Returned(s, NoTensor)]
            ELSE [s |-> c.s,
                  ok |-> TRUE, ret |-> Returned(c.s, c.s._gpu_store[h.index])]

\* _resume_tensor of a handle that is not RECOMPUTE.
ResumePlain(s, h) ==
    IF s._offloaded THEN [s |-> s, ok |-> FALSE, ret |-> Returned(s, NoTensor)]
    ELSE LET c == _change_state(s, {State_RESUMED}, State_RESUMED)
         IN IF ~c.ok THEN [s |-> c.s, ok |-> FALSE, ret |-> Returned(s, NoTensor)]
            ELSE IF h.type = "PASS_THROUGH"
            THEN [s |-> c.s, ok |-> TRUE, ret |-> Returned(c.s, h.tensor)]
            ELSE IF h.type = "ALIAS"
            THEN IF \/ h.index > Len(c.s.index_offset)
                    \/ h.dtype \notin DOMAIN c.s._continuous_gpu_buffer
                 THEN [s |-> c.s, ok |-> FALSE, ret |-> Returned(s, NoTensor)]
                 ELSE LET bo == c.s.index_offset[h.index]
                          bins == c.s._continuous_gpu_buffer[h.dtype]
                      IN IF \/ bo.bin > Len(bins)
                            \/ bo.offset + h.offset + MaxIdx(h.shape, h.stride)
                                  >= bins[bo.bin]
                         THEN [s |-> c.s, ok |-> FALSE, ret |-> Returned(s, NoTensor)]
                         ELSE [s |-> c.s, ok |-> TRUE,
                               ret |-> Returned(c.s,
                                          as_strided(h.dtype, bo.bin, h.shape,
                                                     h.stride, bo.offset + h.offset))]
            ELSE IF h.index > Len(c.s._gpu_store)
            THEN [s |-> c.s, ok |-> FALSE, ret |-> Returned(s, NoTensor)]
            ELSE [s |-> [c.s EXCEPT !._gpu_store[h.index] = NoTensor],
                  ok |-> TRUE, ret |-> Returned(c.s, c.s._gpu_store[h.index])]

\* [self._resume_tensor(x) for x in p_infos]
RECURSIVE ResumeParents(_, _, _)
ResumeParents(s, p_infos, rets) ==
    IF p_infos = <<>> THEN [s |-> s, ok |-> TRUE, rets |-> rets]
    ELSE LET r == ResumePlain(s, Head(p_infos))
         IN IF ~r.ok THEN [s |-> r.s, ok |-> FALSE, rets |-> rets]
            ELSE ResumeParents(r.s, Tail(p_infos), Append(rets, r.ret))

\* function(*parents): the value recomputed from the parents' elements.
PartialRecompute_resume_tensor(parents) ==
    [none |-> FALSE, elems |-> <<>>, loc |-> <<0, 0>>,
     from |-> [i \in 1..Len(parents) |-> parents[i].elems]]

_resume_tensor(s, h) ==
    IF h.type = "RECOMPUTE"
    THEN IF s._offloaded THEN [s |-> s, ok |-> FALSE, ret |-> Returned(s, NoTensor)]
         ELSE LET c == _change_state(s, {State_RESUMED}, State_RESUMED)
                  ps == ResumeParents(c.s, h.parents, <<>>)
              IN IF ~c.ok THEN [s |-> c.s, ok |-> FALSE, ret |-> Returned(s, NoTensor)]
                 ELSE [s |-> ps.s, ok |-> ps.ok,
                       ret |-> PartialRecompute_resume_tensor(ps.rets)]
    ELSE ResumePlain(s, h)

\* resume_release without the assertion that every slot has been consumed.
resume_release_unchecked(s) ==
    LET c == _change_state(s, {State_RESUMED}, State_RESUME_RELEASED)
        s1 == [c.s EXCEPT !._gpu_store = <<>>, !._index_gpu_buffer = <<>>]
    IN IF ~c.ok THEN [s |-> c.s, ok |-> FALSE]
       ELSE IF s1._continuous_gpu_buffer = NoBuffer THEN [s |-> s1, ok |-> FALSE]
       ELSE [s |-> [s1 EXCEPT !._continuous_gpu_buffer = EmptyDict,
                              !.gpu_data = EmptyDict],
             ok |-> TRUE]

\* resume_release without the clearing of _gpu_store.
resume_release_keep(s) ==
    LET c == _change_state(s, {State_RESUMED}, State_RESUME_RELEASED)
        s1 == [c.s EXCEPT !._index_gpu_buffer = <<>>]
    IN IF ~c.ok THEN [s |-> c.s, ok |-> FALSE]
       ELSE IF \E i \in 1..Len(c.s._gpu_store) : c.s._gpu_store[i].mem # "none"
       THEN [s |-> c.s, ok |-> FALSE]
       ELSE IF s1._continuous_gpu_buffer = NoBuffer THEN [s |-> s1, ok |-> FALSE]
       ELSE [s |-> [s1 EXCEPT !._continuous_gpu_buffer = EmptyDict,
                              !.gpu_data = EmptyDict],
             ok |-> TRUE]

resume_release(s) ==
    LET c == _change_state(s, {State_RESUMED}, State_RESUME_RELEASED)
        s1 == [c.s EXCEPT !._gpu_store = <<>>, !._index_gpu_buffer = <<>>]
    IN IF ~c.ok THEN [s |-> c.s, ok |-> FALSE]
       ELSE IF \E i \in 1..Len(c.s._gpu_store) : c.s._gpu_store[i].mem # "none"
       THEN [s |-> c.s, ok |-> FALSE]
       ELSE IF s1._continuous_gpu_buffer = NoBuffer THEN [s |-> s1, ok |-> FALSE]
       ELSE [s |-> [s1 EXCEPT !._continuous_gpu_buffer = EmptyDict,
                              !.gpu_data = EmptyDict],
             ok |-> TRUE]

reset_state(s) ==
    LET c == _change_state(s, {State_RESUME_RELEASED}, State_NEW)
    IN [s |-> c.s, ok |-> c.ok]

(***************************************************************************)
(* The store under its callers: autograd calls the hooks, the runtime the  *)
(* lifecycle methods, in any order.                                        *)
(***************************************************************************)
VARIABLES
    store,      \* the ActivationStore object
    partial,    \* partial_recompute._next_recompute_tensor
    handles,    \* observation: the saves accepted in this lifecycle, in order
    first,      \* observation: the saves of the store's first lifecycle
    resumed,    \* observation: the handles resumed in this lifecycle
    cycle,      \* observation: the number of lifecycles completed
    legal,      \* observation: the calls so far are full legal cycles
    nsaves,     \* number of save hook calls the store has taken
    has_raised, \* observation: a call on the store has raised
    sres        \* the last call: its name, outcome and return value

storeVars == <<store, partial, handles, first, resumed, cycle, legal, nsaves,
               has_raised, sres>>

\* Bound of the ActivationStore model: save hook calls over the whole run.
MaxSaves == 2

\* What the fresh host memory may hold.
Junk == {0, Val(1, 4)}

\* The recompute requests a caller arms: T_b is computed from T_a and T_p.
ArmChoices == { [tensor |-> Acc(T_b), parents |-> <<Acc(T_a), Acc(T_p)>>] }

NoReturn == Returned(ActivationStore_init, NoTensor)

\* A call that returned is reported under its name, one that raised as
\* "raised": the raised exception does not tell the calls apart.
Res(op, ok) == [op |-> IF ok THEN op ELSE "raised", ok |-> ok, arg |-> 0,
                handle |-> Handle("none"), ret |-> NoReturn]

InitStore ==
    /\ store = ActivationStore_init
    /\ partial = NoRecompute
    /\ handles = <<>>
    /\ first = <<>>
    /\ resumed = {}
    /\ cycle = 0
    /\ legal = TRUE
    /\ nsaves = 0
    /\ has_raised = FALSE
    /\ sres = Res("init", TRUE)

IdleStore == InitStore

SavePhase == store._state \in {State_NEW, State_SAVING} /\ ~store._offloaded

\* ActivationStore.recompute_tensor -> PartialRecompute._recompute_tensor
recompute_tensor(a) ==
    /\ IF ~partial.armed
       THEN /\ partial' = [armed |-> TRUE, tensor |-> a.tensor, parents |-> a.parents]
            /\ sres' = Res("recompute_tensor", TRUE)
       ELSE /\ partial' = partial
            /\ sres' = Res("recompute_tensor", FALSE)
    /\ legal' = (legal /\ ~partial.armed /\ SavePhase)
    /\ has_raised' = (has_raised \/ partial.armed)
    /\ UNCHANGED <<store, handles, first, resumed, cycle, nsaves>>

\* The save of this lifecycle repeats the save at the same place of the first.
Repeats(t, h) ==
    cycle = 0 \/ /\ Len(handles) < Len(first)
                 /\ first[Len(handles) + 1].tensor = t
                 /\ (first[Len(handles) + 1].handle.type = "RECOMPUTE")
                        = (h.type = "RECOMPUTE")

SaveHook(t) ==
    LET r == _save_tensor(store, partial, t)
        \* the value saved: its elements, or, of a recomputed tensor (which is
        \* function(*parents)), the elements of the parents it is computed from
        elems == IF r.ret.type = "RECOMPUTE" THEN <<>> ELSE Contents(t)
        from == IF r.ret.type = "RECOMPUTE"
                THEN [i \in 1..Len(partial.parents) |-> Contents(partial.parents[i])]
                ELSE <<>>
    IN /\ SavePhase => nsaves < MaxSaves
       /\ store' = r.s
       /\ partial' = r.p
       /\ nsaves' = IF SavePhase THEN nsaves + 1 ELSE nsaves
       /\ handles' = IF r.ok
                     THEN Append(handles, [tensor |-> t, handle |-> r.ret,
                                           elems |-> elems, from |-> from])
                     ELSE handles
       /\ sres' = IF r.ok THEN [Res("save", TRUE) EXCEPT !.handle = r.ret]
                  ELSE Res("save", FALSE)
       /\ legal' = (legal /\ SavePhase /\ Repeats(t, r.ret))
       /\ has_raised' = (has_raised \/ ~r.ok)
       /\ UNCHANGED <<first, resumed, cycle>>

Offload(junk) ==
    LET r == offload(store, junk)
    IN /\ store' = r.s
       /\ sres' = Res("offload", r.ok)
       /\ legal' = (/\ legal
                    /\ store._state = State_SAVING
                    /\ ~partial.armed
                    /\ Len(handles) > 0
                    /\ cycle > 0 => Len(handles) = Len(first))
       /\ has_raised' = (has_raised \/ ~r.ok)
       /\ UNCHANGED <<partial, handles, first, resumed, cycle, nsaves>>

OffloadRelease ==
    LET r == offload_release(store)
    IN /\ store' = r.s
       /\ sres' = Res("offload_release", r.ok)
       /\ legal' = (legal /\ store._state = State_OFFLOADED)
       /\ has_raised' = (has_raised \/ ~r.ok)
       /\ UNCHANGED <<partial, handles, first, resumed, cycle, nsaves>>

PrepareResume ==
    LET r == prepare_resume(store)
    IN /\ store' = r.s
       /\ sres' = Res("prepare_resume", r.ok)
       /\ legal' = (legal /\ store._state = State_OFFLOAD_RELEASED)
       /\ has_raised' = (has_raised \/ ~r.ok)
       /\ UNCHANGED <<partial, handles, first, resumed, cycle, nsaves>>

Resume ==
    LET r == resume(store)
    IN /\ store' = r.s
       /\ sres' = Res("resume", r.ok)
       /\ legal' = (legal /\ store._state = State_RESUME_PREPARED)
       /\ has_raised' = (has_raised \/ ~r.ok)
       /\ UNCHANGED <<partial, handles, first, resumed, cycle, nsaves>>

ResumeHook(i) ==
    LET r == _resume_tensor(store, handles[i].handle)
    IN /\ store' = r.s
       /\ resumed' = IF r.ok THEN resumed \cup {i} ELSE resumed
       /\ sres' = IF r.ok
                  THEN [Res("resume_hook", TRUE) EXCEPT !.arg = i, !.ret = r.ret]
                  ELSE Res("resume_hook", FALSE)
       /\ legal' = (legal /\ store._state = State_RESUMED /\ i \notin resumed)
       /\ has_raised' = (has_raised \/ ~r.ok)
       /\ UNCHANGED <<partial, handles, first, cycle, nsaves>>

ResumeRelease ==
    LET r == resume_release(store)
    IN /\ store' = r.s
       /\ sres' = Res("resume_release", r.ok)
       /\ legal' = (/\ legal
                    /\ store._state = State_RESUMED
                    /\ resumed = 1..Len(handles))
       /\ has_raised' = (has_raised \/ ~r.ok)
       /\ UNCHANGED <<partial, handles, first, resumed, cycle, nsaves>>

ResetState ==
    LET r == reset_state(store)
    IN /\ store' = r.s
       /\ sres' = Res("reset_state", r.ok)
       /\ legal' = (legal /\ store._state = State_RESUME_RELEASED)
       /\ IF r.ok
          THEN /\ cycle' = cycle + 1
               /\ first' = IF cycle = 0 THEN handles ELSE first
               /\ handles' = <<>>
               /\ resumed' = {}
          ELSE UNCHANGED <<cycle, first, handles, resumed>>
       /\ has_raised' = (has_raised \/ ~r.ok)
       /\ UNCHANGED <<partial, nsaves>>

(***************************************************************************)
(* ======================  PipelineGraph (zbv.py)  ======================= *)
(* Stages, chunks, categories (0 = F, 1 = B, 2 = W) and microbatches are   *)
(* numbered from 0 as in the source; per-stage arrays and end_time are     *)
(* functions on 0..n-1.                                                    *)
(***************************************************************************)
\* PipelineGraph.__init__
PipelineGraph(n_stage, n_micro, f_cost, b_cost, w_cost, c_cost, f_mem, b_mem, w_mem, max_mem) ==
    [n_node |-> 6 * n_stage * n_micro,
     n_stage |-> n_stage, n_micro |-> n_micro,
     f_cost |-> f_cost, b_cost |-> b_cost, w_cost |-> w_cost, c_cost |-> c_cost,
     f_mem |-> f_mem, b_mem |-> b_mem, w_mem |-> w_mem,
     fbw_cost |-> <<f_cost, b_cost, w_cost>>,
     fbw_mem |-> <<f_mem, b_mem, w_mem>>,
     max_mem |-> IF max_mem = 0 THEN f_mem * n_stage * 2 ELSE max_mem]

get_id(g, cat, chunk, stage, micro) ==
    cat * 2 * g.n_stage * g.n_micro + chunk * g.n_stage * g.n_micro
        + stage * g.n_micro + micro

\* end_time[id] as Python indexes it: -1 is the last element.
EndTime(g, s, id) == IF id < 0 THEN s.end_time[g.n_node + id] ELSE s.end_time[id]

\* The local state of one try_v_schedule call; ok is FALSE once an assertion
\* has failed.
TryState(g) ==
    [count |-> [i \in 0..(g.n_stage - 1) |-> [k \in 0..5 |-> 0]],
     end_time |-> [id \in 0..(g.n_node - 1) |-> -1],
     cur_time |-> [i \in 0..(g.n_stage - 1) |-> 0],
     mem |-> [i \in 0..(g.n_stage - 1) |-> 0],
     stage_bubble |-> [i \in 0..(g.n_stage - 1) |-> 0],
     pending_w |-> [i \in 0..(g.n_stage - 1) |-> <<>>],
     schedule |-> [i \in 0..(g.n_stage - 1) |-> <<>>],
     ok |-> TRUE]

RECURSIVE MaxOver(_, _, _)
MaxOver(f, i, n) == IF i >= n THEN 0 ELSE Max2(f[i], MaxOver(f, i + 1, n))

\* min(approved_bubble) in the place of max(approved_bubble)
MinApproved(g, approved_bubble) ==
    CHOOSE x \in {approved_bubble[i] : i \in 0..(g.n_stage - 1)} :
        \A i \in 0..(g.n_stage - 1) : approved_bubble[i] >= x

\* max(approved_bubble)
MaxApproved(g, approved_bubble) ==
    CHOOSE x \in {approved_bubble[i] : i \in 0..(g.n_stage - 1)} :
        \A i \in 0..(g.n_stage - 1) : approved_bubble[i] <= x

get_max_stage_bubble(g, s, approved_bubble, stage) ==
    LET max_stage_bubble == MaxOver(s.stage_bubble, 0, g.n_stage)
    IN IF stage >= 0
       THEN Max2(max_stage_bubble,
                 MaxApproved(g, approved_bubble) - approved_bubble[stage])
       ELSE max_stage_bubble

\* The completion time taken from the node's dependency alone.
put_time_nowait(g, s, cat, chunk, stage) ==
    LET cnt == s.count[stage][cat * 2 + chunk]
        no_bubble == s.cur_time[stage] + g.fbw_cost[cat + 1]
        last_id == cat * 2 + chunk - 1
        own == IF cat > 0 \/ chunk > 0
               THEN IF cat < 2
                    THEN get_id(g, last_id \div 2, last_id % 2, stage, cnt)
                    ELSE get_id(g, 1, chunk, stage, cnt)
               ELSE -1
        fa == IF chunk = 1 /\ cat < 2 /\ stage < g.n_stage - 1
              THEN get_id(g, cat, chunk, stage + 1, cnt)
              ELSE IF chunk = 0 /\ cat < 2 /\ stage > 0
              THEN get_id(g, cat, chunk, stage - 1, cnt)
              ELSE -1
    IN IF own >= 0 /\ s.end_time[own] < 0 THEN [ok |-> FALSE, tmp |-> 0]
       ELSE IF fa >= 0 /\ s.end_time[fa] < 0 THEN [ok |-> FALSE, tmp |-> 0]
       ELSE [ok |-> TRUE,
             tmp |-> IF fa >= 0
                     THEN s.end_time[fa] + g.c_cost + g.fbw_cost[cat + 1]
                     ELSE no_bubble]

\* The completion time that leaves the communication cost out.
put_time_no_comm(g, s, cat, chunk, stage) ==
    LET cnt == s.count[stage][cat * 2 + chunk]
        no_bubble == s.cur_time[stage] + g.fbw_cost[cat + 1]
        last_id == cat * 2 + chunk - 1
        own == IF cat > 0 \/ chunk > 0
               THEN IF cat < 2
                    THEN get_id(g, last_id \div 2, last_id % 2, stage, cnt)
                    ELSE get_id(g, 1, chunk, stage, cnt)
               ELSE -1
        fa == IF chunk = 1 /\ cat < 2 /\ stage < g.n_stage - 1
              THEN get_id(g, cat, chunk, stage + 1, cnt)
              ELSE IF chunk = 0 /\ cat < 2 /\ stage > 0
              THEN get_id(g, cat, chunk, stage - 1, cnt)
              ELSE -1
    IN IF own >= 0 /\ s.end_time[own] < 0 THEN [ok |-> FALSE, tmp |-> 0]
       ELSE IF fa >= 0 /\ s.end_time[fa] < 0 THEN [ok |-> FALSE, tmp |-> 0]
       ELSE [ok |-> TRUE,
             tmp |-> IF fa >= 0
                     THEN Max2(no_bubble, s.end_time[fa] + g.fbw_cost[cat + 1])
                     ELSE no_bubble]

\* put, lines 62-94: the completion time _tmp of the node, with the
\* assertions on the nodes it depends on.
put_time(g, s, cat, chunk, stage) ==
    LET cnt == s.count[stage][cat * 2 + chunk]
        no_bubble == s.cur_time[stage] + g.fbw_cost[cat + 1]
        last_id == cat * 2 + chunk - 1
        own == IF cat > 0 \/ chunk > 0
               THEN IF cat < 2
                    THEN get_id(g, last_id \div 2, last_id % 2, stage, cnt)
                    ELSE get_id(g, 1, chunk, stage, cnt)
               ELSE -1
        fa == IF chunk = 1 /\ cat < 2 /\ stage < g.n_stage - 1
              THEN get_id(g, cat, chunk, stage + 1, cnt)
              ELSE IF chunk = 0 /\ cat < 2 /\ stage > 0
              THEN get_id(g, cat, chunk, stage - 1, cnt)
              ELSE -1
    IN IF own >= 0 /\ s.end_time[own] < 0 THEN [ok |-> FALSE, tmp |-> 0]
       ELSE IF fa >= 0 /\ s.end_time[fa] < 0 THEN [ok |-> FALSE, tmp |-> 0]
       ELSE [ok |-> TRUE,
             tmp |-> IF fa >= 0
                     THEN Max2(no_bubble,
                               s.end_time[fa] + g.c_cost + g.fbw_cost[cat + 1])
                     ELSE no_bubble]

\* put(cat, chunk, stage) with assert_cnt left at its default.
put(g, s, cat, chunk, stage) ==
    LET cnt == s.count[stage][cat * 2 + chunk]
        no_bubble == s.cur_time[stage] + g.fbw_cost[cat + 1]
        t == put_time(g, s, cat, chunk, stage)
        id == get_id(g, cat, chunk, stage, cnt)
    IN IF ~s.ok THEN s
       ELSE IF cnt >= g.n_micro THEN [s EXCEPT !.ok = FALSE]
       ELSE IF s.mem[stage] + g.fbw_mem[cat + 1] > g.max_mem
       THEN [s EXCEPT !.ok = FALSE]
       ELSE IF ~t.ok THEN [s EXCEPT !.ok = FALSE]
       ELSE [s EXCEPT
               !.stage_bubble[stage] =
                   IF s.count[stage][0] > 0 THEN @ + (t.tmp - no_bubble) ELSE @,
               !.end_time[id] = t.tmp,
               !.cur_time[stage] = t.tmp,
               !.mem[stage] = @ + g.fbw_mem[cat + 1],
               !.schedule[stage] = Append(@, <<cat, chunk, cnt>>),
               !.pending_w[stage] = IF cat = 1 THEN Append(@, <<2, chunk, cnt>>) ELSE @,
               !.count[stage][cat * 2 + chunk] = @ + 1]

put_w(g, s, stage) ==
    IF ~s.ok THEN s
    ELSE IF Len(s.pending_w[stage]) = 0 THEN [s EXCEPT !.ok = FALSE]
    ELSE LET chunk_ == Head(s.pending_w[stage])[2]
         IN put(g, [s EXCEPT !.pending_w[stage] = Tail(@)], 2, chunk_, stage)

\* for i in range(self.n_stage): put(0, 0, i)            (lines 121-122)
RECURSIVE WarmupF0(_, _, _)
WarmupF0(g, s, i) ==
    IF i >= g.n_stage THEN s ELSE WarmupF0(g, put(g, s, 0, 0, i), i + 1)

\* for j in range(i + 1): put(0, 0, j)                   (lines 129-130)
RECURSIVE PutF0UpTo(_, _, _, _)
PutF0UpTo(g, s, j, i) ==
    IF j > i THEN s ELSE PutF0UpTo(g, put(g, s, 0, 0, j), j + 1, i)

\* the while loop of lines 128-130 for stage i
RECURSIVE FillBeforeF1(_, _, _, _)
FillBeforeF1(g, s, i, tmp) ==
    IF /\ s.ok
       /\ s.mem[i] + g.fbw_mem[1] * (2 + i * 2) <= g.max_mem
       /\ s.cur_time[i] + g.fbw_cost[1] <= tmp
       /\ s.count[i][0] < g.n_micro
    THEN FillBeforeF1(g, PutF0UpTo(g, s, 0, i), i, tmp)
    ELSE s

\* for i in range(self.n_stage - 1, -1, -1): ...          (lines 123-131)
RECURSIVE WarmupF1(_, _, _)
WarmupF1(g, s, i) ==
    IF i < 0 \/ ~s.ok THEN s
    ELSE IF i = g.n_stage - 1 THEN WarmupF1(g, put(g, s, 0, 1, i), i - 1)
    ELSE LET tmp == s.end_time[get_id(g, 0, 1, i + 1, 0)] + g.c_cost
         IN WarmupF1(g, put(g, FillBeforeF1(g, s, i, tmp), 0, 1, i), i - 1)

\* for j in range(self.n_stage - 1, i - 1, -1): ...       (lines 140-142)
RECURSIVE ZigZagRow(_, _, _, _, _)
ZigZagRow(g, s, j, i, iter_chunk_) ==
    IF j < i THEN s
    ELSE ZigZagRow(g,
                   IF s.ok /\ s.count[j][iter_chunk_] < g.n_micro
                   THEN put(g, s, 0, iter_chunk_, j) ELSE s,
                   j - 1, i, iter_chunk_)

\* the while loop of lines 139-143 for stage i; the result carries iter_chunk_
RECURSIVE ZigZagWhile(_, _, _, _)
ZigZagWhile(g, s, i, iter_chunk_) ==
    IF /\ s.ok
       /\ \/ s.count[i][0] + s.count[i][1] < s.count[i - 1][0] + s.count[i - 1][1]
          \/ (s.count[i][1] <= s.count[i - 1][1] /\ s.count[i - 1][1] < g.n_micro)
    THEN ZigZagWhile(g, ZigZagRow(g, s, g.n_stage - 1, i, iter_chunk_), i,
                     1 - iter_chunk_)
    ELSE [s |-> s, iter_chunk_ |-> iter_chunk_]

\* for i in range(self.n_stage): ...                      (lines 134-143)
RECURSIVE ZigZag(_, _, _, _)
ZigZag(g, s, i, iter_chunk_) ==
    IF i >= g.n_stage THEN s
    ELSE IF i = 0 THEN ZigZag(g, s, i + 1, iter_chunk_)
    ELSE LET r == ZigZagWhile(g, s, i, iter_chunk_)
         IN ZigZag(g, r.s, i + 1, r.iter_chunk_)

\* The memory check that places no W to make room.
FreeMem_skip(g, s, i, cat) == s

\* while mem[i] + self.fbw_mem[cat] > self.max_mem: assert ...; put_w(i)
RECURSIVE FreeMem(_, _, _, _)
FreeMem(g, s, i, cat) ==
    IF s.ok /\ s.mem[i] + g.fbw_mem[cat + 1] > g.max_mem
    THEN FreeMem(g, put_w(g, s, i), i, cat)
    ELSE s

\* for i in range(self.n_stage): while mem[i] + ...       (lines 157-160)
RECURSIVE FreeMemAll(_, _, _)
FreeMemAll(g, s, i) ==
    IF i >= g.n_stage THEN s ELSE FreeMemAll(g, FreeMem(g, s, i, 1), i + 1)

\* The chunk of the B a stage gets in this round          (lines 162-172)
BChunk(g, s, i) ==
    IF s.count[i][3] >= s.count[i][2] THEN 0
    ELSE IF i = g.n_stage - 1 THEN 1
    ELSE IF \/ EndTime(g, s, get_id(g, 1, 1, i + 1, s.count[i][3])) >= 0
            \/ s.count[i][2] >= g.n_micro
         THEN 1 ELSE 0

\* b_ranks: reversed(b1_ranks) with chunk 1, then b0_ranks with chunk 0.
RECURSIVE RanksDown(_, _, _)
RanksDown(g, s, i) ==
    IF i < 0 THEN <<>>
    ELSE (IF BChunk(g, s, i) = 1 THEN <<<<i, 1>>>> ELSE <<>>) \o RanksDown(g, s, i - 1)

RECURSIVE RanksUp(_, _, _)
RanksUp(g, s, i) ==
    IF i >= g.n_stage THEN <<>>
    ELSE (IF BChunk(g, s, i) = 0 THEN <<<<i, 0>>>> ELSE <<>>) \o RanksUp(g, s, i + 1)

b_ranks(g, s) == RanksDown(g, s, g.n_stage - 1) \o RanksUp(g, s, 0)

\* while len(pending_w[i]) > 0 and fa_id >= 0 and ...: put_w(i)   ("fill the
\* bubble", lines 186-188 and 224-226)
RECURSIVE FillBubble(_, _, _, _)
FillBubble(g, s, i, fa_id) ==
    IF /\ s.ok
       /\ Len(s.pending_w[i]) > 0
       /\ fa_id >= 0
       /\ EndTime(g, s, fa_id) + g.c_cost >= s.cur_time[i] + g.fbw_cost[3]
    THEN FillBubble(g, put_w(g, s, i), i, fa_id)
    ELSE s

\* The test of lines 189 and 227.
BubbleLeft(g, s, approved_bubble, i, fa_id) ==
    /\ Len(s.pending_w[i]) > 0
    /\ EndTime(g, s, fa_id) + g.c_cost - s.cur_time[i]
          > get_max_stage_bubble(g, s, approved_bubble, i) - s.stage_bubble[i]

\* One entry (i, _chunk_) of b_ranks                      (lines 180-194)
PutB(g, s, approved_bubble, fill_b, i, chunk_) ==
    LET fa_id == IF chunk_ = 1 /\ i < g.n_stage - 1
                 THEN get_id(g, 1, 1, i + 1, s.count[i][3])
                 ELSE IF chunk_ = 0 /\ i > 0
                 THEN get_id(g, 1, 0, i - 1, s.count[i][2])
                 ELSE -1
        s1 == FillBubble(g, s, i, fa_id)
        s2 == IF s1.ok /\ BubbleLeft(g, s1, approved_bubble, i, fa_id)
                 /\ (chunk_ = 1 \/ fill_b)
              THEN put_w(g, s1, i) ELSE s1
    IN IF ~s.ok THEN s ELSE put(g, s2, 1, chunk_, i)

RECURSIVE PutBs(_, _, _, _, _)
PutBs(g, s, approved_bubble, fill_b, ranks) ==
    IF ranks = <<>> THEN s
    ELSE PutBs(g, PutB(g, s, approved_bubble, fill_b, Head(ranks)[1], Head(ranks)[2]),
               approved_bubble, fill_b, Tail(ranks))

\* put_item of stage i, or -1 for None                     (lines 200-212)
put_item(g, s, i) ==
    IF s.count[i][1] >= s.count[i][0] THEN 0
    ELSE IF i = g.n_stage - 1 THEN 1
    ELSE IF EndTime(g, s, get_id(g, 0, 1, i + 1, s.count[i][1])) >= 0 THEN 1
    ELSE IF s.count[i][0] < g.n_micro
    THEN IF i = 0 THEN 0
         ELSE IF EndTime(g, s, get_id(g, 0, 0, i - 1, s.count[i][0])) >= 0 THEN 0
         ELSE -1
    ELSE -1

\* One stage of the "put f" loop                           (lines 198-230)
PutF(g, s, approved_bubble, fill_f, i) ==
    LET item == put_item(g, s, i)
        s0 == FreeMem(g, s, i, 0)
        fa_id == IF item = 0 /\ i > 0
                 THEN get_id(g, 0, 0, i - 1, s0.count[i][0])
                 ELSE IF item = 1 /\ i < g.n_stage - 1
                 THEN get_id(g, 0, 1, i + 1, s0.count[i][1])
                 ELSE -1
        s1 == FillBubble(g, s0, i, fa_id)
        s2 == IF s1.ok /\ BubbleLeft(g, s1, approved_bubble, i, fa_id) /\ fill_f
              THEN put_w(g, s1, i) ELSE s1
    IN IF ~s.ok THEN s
       ELSE IF s.count[i][1] >= g.n_micro THEN s
       ELSE IF item = -1 THEN s
       ELSE put(g, s2, 0, item, i)

RECURSIVE PutFs(_, _, _, _, _)
PutFs(g, s, approved_bubble, fill_f, i) ==
    IF i >= g.n_stage THEN s
    ELSE PutFs(g, PutF(g, s, approved_bubble, fill_f, i), approved_bubble, fill_f, i + 1)

\* for _ in range(2 * self.n_micro): ...                   (lines 155-230)
RECURSIVE MainLoop(_, _, _, _, _, _)
MainLoop(g, s, approved_bubble, fill_f, fill_b, round) ==
    IF round >= 2 * g.n_micro \/ ~s.ok THEN s
    ELSE LET s1 == FreeMemAll(g, s, 0)
             s2 == PutBs(g, s1, approved_bubble, fill_b, b_ranks(g, s1))
             s3 == PutFs(g, s2, approved_bubble, fill_f, 0)
         IN MainLoop(g, s3, approved_bubble, fill_f, fill_b, round + 1)

\* while len(pending_w[i]) > 0: put_w(i)
RECURSIVE DrainStage(_, _, _)
DrainStage(g, s, i) ==
    IF s.ok /\ Len(s.pending_w[i]) > 0 THEN DrainStage(g, put_w(g, s, i), i) ELSE s

\* The loop over the stages that drops the pending W instead of placing it.
Drain_skip(g, s) == s

\* for i in range(self.n_stage): while ...: put_w(i)       (lines 232-234)
RECURSIVE DrainFrom(_, _, _)
DrainFrom(g, s, i) ==
    IF i >= g.n_stage THEN s ELSE DrainFrom(g, DrainStage(g, s, i), i + 1)

Drain(g, s) == DrainFrom(g, s, 0)

\* One pass of try_v_schedule (lines 32-239), before the recursive retry.
TryPass(g, fill_f, fill_b, approved_bubble) ==
    LET s1 == WarmupF0(g, TryState(g), 0)
        s2 == WarmupF1(g, s1, g.n_stage - 1)
        s3 == ZigZag(g, s2, 0, 0)
        s4 == MainLoop(g, s3, approved_bubble, fill_f, fill_b, 0)
    IN Drain(g, s4)

RECURSIVE try_v_schedule(_, _, _, _)
\* One attempt along the recursion, as logged in the result: the maximum
\* stage bubble it ended with and max(approved_bubble) it was given.
Attempt(max_bubble, max_approved_bubble) ==
    [max_bubble |-> max_bubble, max_approved_bubble |-> max_approved_bubble]

\* Lines 240-252: s is the state the construction has ended in.  attempts
\* logs this attempt and those of the recursive call after it.
RECURSIVE try_again(_, _, _, _, _)
try_again(g, fill_f, fill_b, approved_bubble, s) ==
    LET max_approved_bubble == MaxApproved(g, approved_bubble)
        max_bubble == get_max_stage_bubble(g, s, approved_bubble, -1)
        here == <<Attempt(max_bubble, max_approved_bubble)>>
        mine == [ok |-> TRUE, schedule |-> s.schedule, end_time |-> s.end_time,
                 max_bubble |-> max_bubble, attempts |-> here]
        failed == [ok |-> FALSE, schedule |-> s.schedule, end_time |-> s.end_time,
                   max_bubble |-> 0, attempts |-> here]
    IN IF ~s.ok THEN failed
       ELSE IF max_approved_bubble < 0 \/ max_bubble < max_approved_bubble
       THEN LET r == try_v_schedule(g, fill_f, fill_b, s.stage_bubble)
            IN IF ~r.ok THEN failed
               ELSE IF r.max_bubble < max_bubble
               THEN [r EXCEPT !.attempts = here \o @]
               ELSE [mine EXCEPT !.attempts = here \o r.attempts]
       ELSE mine

\* try_v_schedule: (schedule, end_time, max_bubble), or ok = FALSE when an
\* assertion failed.  approved_bubble is [-1] * n_stage at the outer call.
try_v_schedule(g, fill_f, fill_b, approved_bubble) ==
    try_again(g, fill_f, fill_b, approved_bubble,
              TryPass(g, fill_f, fill_b, approved_bubble))

\* approved_bubble = [-1] * self.n_stage                   (lines 44-45)
NoApproved(g) == [i \in 0..(g.n_stage - 1) |-> -1]

\* The (fill_b, fill_f) pairs in the order create_schedule tries them
\* (lines 285-286), numbered from 0.
FillCombos == <<[fill_b |-> TRUE, fill_f |-> TRUE], [fill_b |-> TRUE, fill_f |-> FALSE],
                [fill_b |-> FALSE, fill_f |-> TRUE], [fill_b |-> FALSE, fill_f |-> FALSE]>>

FuncTypes == <<"F", "B", "W">>

\* The node built with the chunk index of the construction kept for B and W.
ScheduledNode_same_chunk(cfg, stage, entry) ==
    LET cat_ == entry[1]
        chunk == entry[2]
        base == cfg.n_stages * chunk
    IN [type |-> FuncTypes[cat_ + 1],
        chunk |-> chunk,
        stage |-> stage,
        microbatch |-> entry[3],
        layer_group_idx |-> IF chunk % 2 = 0 THEN base + stage
                            ELSE base + cfg.n_stages - 1 - stage]

\* ScheduledNode(...) as create_schedule builds it         (lines 302-321)
ScheduledNode(cfg, stage, entry) ==
    LET cat_ == entry[1]
        chunk_ == entry[2]
        chunk == IF cat_ = 0 THEN chunk_ ELSE cfg.max_chunks - 1 - chunk_
        base == cfg.n_stages * chunk
    IN [type |-> FuncTypes[cat_ + 1],
        chunk |-> chunk,
        stage |-> stage,
        microbatch |-> entry[3],
        layer_group_idx |-> IF chunk % 2 = 0 THEN base + stage
                            ELSE base + cfg.n_stages - 1 - stage]

\* The stage orders with the nodes of a stage in the reverse of the order
\* they were placed in.
LocalOrder_reversed(g, cfg, sched) ==
    [stage \in 0..(g.n_stage - 1) |->
        [k \in 1..Len(sched[stage]) |->
            ScheduledNode(cfg, stage, sched[stage][Len(sched[stage]) + 1 - k])]]

\* local_order of create_schedule                          (lines 300-322)
LocalOrder(g, cfg, sched) ==
    [stage \in 0..(g.n_stage - 1) |->
        [k \in 1..Len(sched[stage]) |-> ScheduledNode(cfg, stage, sched[stage][k])]]

\* The memory estimates the runtime hands to the graph (runtime.py 1559-1561).
f_mem_approx(hidden_size, num_attention_heads, seq_length) ==
    34 * hidden_size + 5 * num_attention_heads * seq_length

w_mem_approx(hidden_size) == -(32 * hidden_size)

b_mem_approx(hidden_size, num_attention_heads, seq_length) ==
    -f_mem_approx(hidden_size, num_attention_heads, seq_length) - w_mem_approx(hidden_size)

(***************************************************************************)
(* The scheduler's environment: one create_schedule call on a graph built  *)
(* the way the runtime builds it, observed after each try_v_schedule.      *)
(***************************************************************************)
VARIABLES
    graph,        \* the PipelineGraph
    config,       \* the GraphConfig passed to create_schedule
    tries,        \* number of try_v_schedule calls create_schedule has made
    tried,        \* what the last try_v_schedule call returned
    schedule,     \* create_schedule's local: best schedule so far
    end_time,     \* create_schedule's local: its completion times
    max_bubble,   \* create_schedule's local: its bubble, -1 for None
    local_order,  \* what create_schedule returned
    zres          \* "new", "trying", "returned" or "raised"

zbvVars == <<graph, config, tries, tried, schedule, end_time, max_bubble, local_order, zres>>

MaxMicro == 3
MaxStage == 3
Stages == 2..MaxStage
Costs == {1, 2, 3}
CommCosts == {0, 2}
HiddenSizes == {1}
HeadsTimesSeq == {1, 16}

NoTry(g) == [ok |-> TRUE, schedule |-> TryState(g).schedule,
             end_time |-> TryState(g).end_time, max_bubble |-> -1,
             attempts |-> <<>>]

ZbvStart(g) ==
    /\ graph = g
    /\ config = [max_chunks |-> 2, n_stages |-> g.n_stage, n_micro |-> g.n_micro]
    /\ tries = 0
    /\ tried = NoTry(g)
    /\ schedule = TryState(g).schedule
    /\ end_time = TryState(g).end_time
    /\ max_bubble = -1
    /\ local_order = TryState(g).schedule
    /\ zres = "new"

\* The scheduler closure of get_zero_bubble_forward_backward_func
\* (runtime.py 1749-1771) on profiled costs.
InitZbv ==
    \E n_stage \in Stages, n_micro \in 1..MaxMicro,
       f \in Costs, b \in Costs, w \in Costs, c \in CommCosts,
       h \in HiddenSizes, as \in HeadsTimesSeq :
        ZbvStart(PipelineGraph(n_stage, n_micro, f, b, w, c,
                               f_mem_approx(h, as, 1), b_mem_approx(h, as, 1),
                               w_mem_approx(h), 0))

IdleZbv == ZbvStart(PipelineGraph(2, 1, 1, 1, 1, 0, 2, -1, -1, 0))

\* One iteration of the loops of create_schedule (lines 285-294).
create_schedule_try ==
    /\ zres \in {"new", "trying"}
    /\ tries < Len(FillCombos)
    /\ \E r \in {try_v_schedule(graph, FillCombos[tries + 1].fill_f,
                               FillCombos[tries + 1].fill_b, NoApproved(graph))} :
          /\ tried' = r
          /\ tries' = tries + 1
          /\ IF ~r.ok
             THEN /\ zres' = "raised"
                  /\ UNCHANGED <<schedule, end_time, max_bubble>>
             ELSE /\ zres' = "trying"
                  /\ IF max_bubble = -1 \/ r.max_bubble < max_bubble
                     THEN /\ max_bubble' = r.max_bubble
                          /\ schedule' = r.schedule
                          /\ end_time' = r.end_time
                     ELSE UNCHANGED <<schedule, end_time, max_bubble>>
    /\ UNCHANGED <<graph, config, local_order>>

\* The rest of create_schedule (lines 296-322).
create_schedule_return ==
    /\ zres = "trying"
    /\ tries = Len(FillCombos)
    /\ local_order' = LocalOrder(graph, config, schedule)
    /\ zres' = "returned"
    /\ UNCHANGED <<graph, config, tries, tried, schedule, end_time, max_bubble>>

(***************************************************************************)
(* ==============  TrainingIteration and SchedNodeRuntime  =============== *)
(* (runtime.py)  One pipeline rank with a single model chunk and one       *)
(* sequence split, neither the first nor the last stage, so every F takes  *)
(* its input from recv_forward_buffer and every B its gradient from        *)
(* recv_backward_buffer.  The cursor it counts from 0 as in the source;    *)
(* schedules[it + 1] is conf.schedules[it].                                *)
(***************************************************************************)
\* FuncType predicates (graph.py)
is_computation(type) == type \in {"F", "B", "W", "BW", "S", "T", "IF", "IB"}

is_send(type) == type \in {"SEND_FORWARD", "SEND_BACKWARD", "SEND_POST_VALIDATION"}

is_backward_comm(type) == type \in {"SEND_BACKWARD", "RECV_BACKWARD"}

is_post_validation_related(type) ==
    type \in {"POST_VALIDATION", "SEND_POST_VALIDATION", "RECV_POST_VALIDATION"}

AUTO_SCHEDULE_COMMUNICATION_TYPES ==
    {"RECV_FORWARD", "RECV_BACKWARD", "SEND_FORWARD", "SEND_BACKWARD"}

\* The keys of States.communication_batch, in the order of the dict.
Directions == <<"SEND_NEXT", "RECV_NEXT", "SEND_PREV", "RECV_PREV">>

\* TrainingIteration.direction_map
direction_map(node) ==
    IF is_send(node.type)
    THEN (IF node.comm_direction = "NEXT" THEN "SEND_NEXT" ELSE "SEND_PREV")
    ELSE (IF node.comm_direction = "NEXT" THEN "RECV_NEXT" ELSE "RECV_PREV")

\* TrainingIteration.States()
States_init ==
    [send_handles |-> {},
     w_clear_run |-> FALSE,
     communication_batch |-> [d \in {"SEND_NEXT", "RECV_NEXT", "SEND_PREV", "RECV_PREV"} |-> <<>>],
     it |-> 0]

\* TrainingIteration.Buffers(): the queues of tensors in flight, a tensor
\* being named by the microbatch it belongs to.  input_tensors stands for the
\* pair input_tensors / output_tensors, which are pushed and popped together.
Buffers_init ==
    [input_tensors |-> <<>>,
     send_forward_buffer |-> <<>>,
     recv_forward_buffer |-> <<>>,
     send_backward_buffer |-> <<>>,
     recv_backward_buffer |-> <<>>]

\* TrainingIteration.__init__
TrainingIteration(iteration_config, iteration_id) ==
    [iteration_config |-> iteration_config,
     states |-> States_init,
     buffers |-> Buffers_init,
     iteration_id |-> iteration_id]

\* curr_iteration / next_iteration = None
NoIteration == TrainingIteration([forward_only |-> FALSE], -1)

\* A reset that forgets to replace the buffers.
reset_states_only(ti) == [ti EXCEPT !.states = States_init]

\* TrainingIteration.reset
reset(ti) == [ti EXCEPT !.states = States_init, !.buffers = Buffers_init]

\* TrainingIteration._free_buffers
_free_buffers(ti) == [ti EXCEPT !.buffers = Buffers_init]

\* Buffers.buffer_map: the name of the queue a communication node works on.
buffer_map(node) ==
    CASE node.type = "SEND_FORWARD" -> "send_forward_buffer"
      [] node.type = "RECV_FORWARD" -> "recv_forward_buffer"
      [] node.type = "SEND_BACKWARD" -> "send_backward_buffer"
      [] node.type = "RECV_BACKWARD" -> "recv_backward_buffer"

\* One entry of the record a call leaves of what it did, in order.
Ev(ev, it, nodes, batch, pending) ==
    [ev |-> ev, it |-> it, nodes |-> nodes, batch |-> batch, pending |-> pending]

\* The running call: the iteration, the data iterator, the record of events
\* and whether no exception has been raised.
Env(ti, di, evs) == [ti |-> ti, di |-> di, log |-> evs, ok |-> TRUE]

Raise(e) == [e EXCEPT !.ok = FALSE]

Note(e, ev, it, nodes, batch) ==
    [e EXCEPT !.log = Append(@, Ev(ev, it, nodes, batch, 0))]

\* The nodes (schedule cursors) waiting in the four batches.
Pending(states) ==
    states.communication_batch["SEND_NEXT"] \o states.communication_batch["RECV_NEXT"]
        \o states.communication_batch["SEND_PREV"] \o states.communication_batch["RECV_PREV"]

\* [bufs.buffer_map(n).pop(0)[0] for n in nodes]: IndexError on an empty queue.
RECURSIVE PopSends(_, _, _)
PopSends(sch, e, its) ==
    IF its = <<>> \/ ~e.ok THEN e
    ELSE LET q == buffer_map(sch[Head(its) + 1])
         IN IF e.ti.buffers[q] = <<>> THEN Raise(e)
            ELSE PopSends(sch, [e EXCEPT !.ti.buffers[q] = Tail(@)], Tail(its))

\* bufs.buffer_map(n).append(([tensor], [req])) for the receive nodes
RECURSIVE PushRecvs(_, _, _)
PushRecvs(sch, e, its) ==
    IF its = <<>> THEN e
    ELSE LET n == sch[Head(its) + 1]
         IN PushRecvs(sch, [e EXCEPT !.ti.buffers[buffer_map(n)] = Append(@, n.microbatch)],
                      Tail(its))

RECURSIVE SeqToSet(_)
SeqToSet(s) == IF s = <<>> THEN {} ELSE {Head(s)} \cup SeqToSet(Tail(s))

\* TrainingIteration.flush: issues every pending node and empties the batches.
flush(sch, e) ==
    LET batch == e.ti.states.communication_batch
        sn_nodes == batch["SEND_NEXT"]
        sp_nodes == batch["SEND_PREV"]
        rn_nodes == batch["RECV_NEXT"]
        rp_nodes == batch["RECV_PREV"]
        e1 == PopSends(sch, PopSends(sch, e, sn_nodes), sp_nodes)
        e2 == PushRecvs(sch, PushRecvs(sch, e1, rn_nodes), rp_nodes)
        issued == sp_nodes \o rp_nodes \o sn_nodes \o rn_nodes
    IN IF ~e.ok THEN e
       ELSE IF ~e1.ok THEN e1
       ELSE [e2 EXCEPT
               !.ti.states.send_handles = @ \cup SeqToSet(sp_nodes \o sn_nodes),
               !.ti.states.communication_batch =
                   [d \in DOMAIN batch |-> <<>>],
               !.log = Append(@, Ev("issue", -1, issued, -1, 0))]

\* is_consumer that does not compare the microbatches.
is_consumer_any_microbatch(scheduled_node, next_compute) ==
    /\ scheduled_node.chunk = next_compute.chunk
    /\ scheduled_node.seq_split_idx = next_compute.seq_split_idx
    /\ \/ scheduled_node.type = "RECV_FORWARD" /\ next_compute.type = "F"
       \/ scheduled_node.type = "RECV_BACKWARD" /\ next_compute.type \in {"B", "BW"}

\* add_communication.is_consumer
is_consumer(scheduled_node, next_compute) ==
    /\ scheduled_node.chunk = next_compute.chunk
    /\ scheduled_node.seq_split_idx = next_compute.seq_split_idx
    /\ scheduled_node.microbatch = next_compute.microbatch
    /\ \/ scheduled_node.type = "RECV_FORWARD" /\ next_compute.type = "F"
       \/ scheduled_node.type = "RECV_BACKWARD" /\ next_compute.type \in {"B", "BW"}

\* A flush condition that looks at the consumer only.
ShouldFlush_consumer(sch, forward_only, it, next_is_comm, next_compute) ==
    next_compute >= 0 /\ is_consumer(sch[it + 1], sch[next_compute + 1])

\* The condition of line 900; next_compute is a cursor, -1 for None.
ShouldFlush(sch, forward_only, it, next_is_comm, next_compute) ==
    \/ next_compute >= 0 /\ is_consumer(sch[it + 1], sch[next_compute + 1])
    \/ ~next_is_comm
    \/ forward_only

\* TrainingIteration.add_communication
add_communication(sch, e, it, next_is_comm, next_compute) ==
    LET scheduled_node == sch[it + 1]
        conf == e.ti.iteration_config
        e1 == [e EXCEPT
                 !.ti.states.communication_batch[direction_map(scheduled_node)] =
                     Append(@, it),
                 !.log = Append(@, Ev("add", it, <<>>, -1, 0))]
    IN IF conf.forward_only /\ is_backward_comm(scheduled_node.type)
       THEN Note(e, "drop", it, <<>>, -1)
       ELSE IF ShouldFlush(sch, conf.forward_only, it, next_is_comm, next_compute)
       THEN flush(sch, e1)
       ELSE e1

\* it + 1 < len(conf.schedules) and conf.schedules[it + 1].type in AUTO_...
next_is_comm(sch, it) ==
    it + 1 < Len(sch) /\ sch[it + 2].type \in AUTO_SCHEDULE_COMMUNICATION_TYPES

\* The first computation node of conf.schedules[it + 1:], -1 for None.
RECURSIVE FirstCompute(_, _)
FirstCompute(sch, j) ==
    IF j >= Len(sch) THEN -1
    ELSE IF is_computation(sch[j + 1].type) THEN j
    ELSE FirstCompute(sch, j + 1)

next_compute(sch, it) == FirstCompute(sch, it + 1)

(***************************************************************************)
(* RollbackDataIteratorWrapper.  While saving, the batches handed out are  *)
(* kept in the buffer; while popping, the buffered batches are handed out  *)
(* again before the underlying iterator is read.  A batch is named by its  *)
(* position in the underlying iterator.                                    *)
(***************************************************************************)
DataIterator_init == [buffer |-> <<>>, saving |-> FALSE, popping |-> FALSE, source |-> 0]

clear_buffer(di) == [di EXCEPT !.buffer = <<>>]

save_to_buffer(di) == [di EXCEPT !.saving = TRUE, !.popping = FALSE]

pop_from_buffer(di) == [di EXCEPT !.saving = FALSE, !.popping = TRUE]

\* next(data_iterator): the batch and the iterator afterwards
next_batch(di) ==
    IF di.popping /\ di.buffer # <<>>
    THEN [batch |-> Head(di.buffer), di |-> [di EXCEPT !.buffer = Tail(@)]]
    ELSE [batch |-> di.source,
          di |-> [di EXCEPT !.source = @ + 1,
                            !.buffer = IF di.saving THEN Append(@, di.source) ELSE @]]

(***************************************************************************)
(* The computation nodes                                                   *)
(***************************************************************************)
\* TrainingIteration.schedule_f
schedule_f(sch, e, it) ==
    LET scheduled_node == sch[it + 1]
        bufs == e.ti.buffers
        nb == next_batch(e.di)
        pending == Len(Pending(e.ti.states))
    IN IF bufs.recv_forward_buffer = <<>>
       THEN Raise([e EXCEPT !.log = Append(@, Ev("F", it, <<>>, -1, pending))])
       ELSE [e EXCEPT
               !.ti.buffers.recv_forward_buffer = Tail(@),
               !.ti.buffers.send_forward_buffer = Append(@, scheduled_node.microbatch),
               !.ti.buffers.input_tensors =
                   IF e.ti.iteration_config.forward_only THEN @
                   ELSE Append(@, scheduled_node.microbatch),
               !.di = nb.di,
               !.log = Append(@, Ev("F", it, <<>>, nb.batch, pending))]

\* TrainingIteration.schedule_b_impl, called by schedule_b and schedule_bw
schedule_b_impl(sch, e, it) ==
    LET scheduled_node == sch[it + 1]
        bufs == e.ti.buffers
        pending == Len(Pending(e.ti.states))
        e0 == [e EXCEPT !.log = Append(@, Ev(scheduled_node.type, it, <<>>, -1, pending))]
    IN IF e.ti.iteration_config.forward_only THEN e0
       ELSE IF bufs.input_tensors = <<>> THEN Raise(e0)
       ELSE IF bufs.recv_backward_buffer = <<>>
       THEN Raise([e0 EXCEPT !.ti.buffers.input_tensors = Tail(@)])
       ELSE [e0 EXCEPT
               !.ti.buffers.input_tensors = Tail(@),
               !.ti.buffers.recv_backward_buffer = Tail(@),
               !.ti.buffers.send_backward_buffer = Append(@, scheduled_node.microbatch)]

\* any([node.type != W for node in conf.schedules[it + 1:]])
non_w_pending(sch, it) == \E j \in (it + 2)..Len(sch) : sch[j].type # "W"

\* TrainingIteration.schedule_w with a single chunk: the unit is popped, or
\* the queue is cleared once.
schedule_w(sch, e, it) ==
    LET pending == Len(Pending(e.ti.states))
        e0 == [e EXCEPT !.log = Append(@, Ev("W", it, <<>>, -1, pending))]
    IN IF e.ti.iteration_config.forward_only THEN e0
       ELSE IF non_w_pending(sch, it) THEN Note(e0, "w_pop", it, <<>>, -1)
       ELSE IF ~e.ti.states.w_clear_run
       THEN [Note(e0, "w_clear", it, <<>>, -1) EXCEPT !.ti.states.w_clear_run = TRUE]
       ELSE e0

(***************************************************************************)
(* TrainingIteration.run                                                   *)
(***************************************************************************)
\* The body of the while loop of run for the node at cursor it.
run_dispatch(sch, e, it) ==
    LET type == sch[it + 1].type
    IN IF is_post_validation_related(type) THEN Note(e, "ignore", it, <<>>, -1)
       ELSE IF type \in AUTO_SCHEDULE_COMMUNICATION_TYPES
       THEN add_communication(sch, e, it, next_is_comm(sch, it), next_compute(sch, it))
       ELSE IF type = "F" THEN schedule_f(sch, e, it)
       ELSE IF type \in {"B", "BW"} THEN schedule_b_impl(sch, e, it)
       ELSE IF type = "W" THEN schedule_w(sch, e, it)
       ELSE Raise(Note(e, "unknown", it, <<>>, -1))

\* while it < len(conf.schedules): ...; it += 1
RECURSIVE run_loop(_, _, _)
run_loop(sch, e, it) ==
    IF ~e.ok \/ it >= Len(sch) THEN [e |-> e, it |-> it]
    ELSE LET e1 == run_dispatch(sch, e, it)
         IN IF e1.ok THEN run_loop(sch, e1, it + 1) ELSE [e |-> e1, it |-> it]

\* WeightGradStore.assert_empty() of the store interface the engine calls
\* (lines 184 and 268): no weight-gradient unit is queued between two
\* iterations, so the call returns and changes nothing.
assert_empty(e) == e

\* A run that starts the schedule over instead of resuming at states.it.
TrainingIteration_run_from_start(sch, ti, di) ==
    LET r == run_loop(sch, assert_empty(Env(ti, di, <<>>)), 0)
    IN IF r.e.ok
       THEN [r.e EXCEPT !.ti.states.it = r.it,
                        !.log = Append(@, Ev("return", r.it, <<>>, -1,
                                             Len(Pending(r.e.ti.states))))]
       ELSE r.e

\* TrainingIteration.run: the cursor is stored only after the loop.
TrainingIteration_run(sch, ti, di) ==
    LET r == run_loop(sch, assert_empty(Env(ti, di, <<>>)), ti.states.it)
    IN IF r.e.ok
       THEN [r.e EXCEPT !.ti.states.it = r.it,
                        !.log = Append(@, Ev("return", r.it, <<>>, -1,
                                             Len(Pending(r.e.ti.states))))]
       ELSE r.e

(***************************************************************************)
(* TrainingIteration.run_until_post_validation                             *)
(***************************************************************************)
\* self.flush(); ... = optimizer.post_validation(self._free_buffers).  The
\* optimizer frees the buffers through the callback when it rolls back.
post_validation(sch, e, it, optimizer) ==
    LET e1 == flush(sch, e)
        e2 == Note(e1, "post_validation", it, <<>>, -1)
    IN IF ~e1.ok THEN e1
       ELSE IF optimizer.succeed THEN e2
       ELSE [e2 EXCEPT !.ti = _free_buffers(@)]

\* The while loop of lines 287-310 (optimizer.do_this_step).
RECURSIVE until_pv_step(_, _, _, _)
until_pv_step(sch, e, it, optimizer) ==
    IF ~e.ok \/ it >= Len(sch) THEN [e |-> e, it |-> it, succeed |-> "None"]
    ELSE LET type == sch[it + 1].type
         IN IF type \in {"SEND_FORWARD", "RECV_FORWARD"}
            THEN until_pv_step(sch, add_communication(sch, e, it, next_is_comm(sch, it),
                                                     next_compute(sch, it)),
                               it + 1, optimizer)
            ELSE IF type = "F"
            THEN until_pv_step(sch, schedule_f(sch, e, it), it + 1, optimizer)
            ELSE IF type = "RECV_POST_VALIDATION"
            THEN until_pv_step(sch, Note(e, "recv_post_validation", it, <<>>, -1),
                               it + 1, optimizer)
            ELSE IF type = "SEND_POST_VALIDATION"
            THEN until_pv_step(sch, Note(e, "send_post_validation", it, <<>>, -1),
                               it + 1, optimizer)
            ELSE IF type = "POST_VALIDATION"
            THEN [e |-> post_validation(sch, e, it, optimizer), it |-> it,
                  succeed |-> IF optimizer.succeed THEN "True" ELSE "False"]
            ELSE [e |-> Raise(Note(e, "unexpected", it, <<>>, -1)), it |-> it,
                  succeed |-> "None"]

\* The while loop of lines 313-333 (not optimizer.do_this_step).
RECURSIVE until_pv_skip(_, _, _, _)
until_pv_skip(sch, e, it, optimizer) ==
    IF ~e.ok \/ it >= Len(sch) THEN [e |-> e, it |-> it, succeed |-> "None"]
    ELSE LET type == sch[it + 1].type
         IN IF type \in {"SEND_FORWARD", "RECV_FORWARD", "F"}
            THEN until_pv_skip(sch,
                               IF optimizer.do_prev_step /\ type = "RECV_FORWARD"
                               THEN add_communication(sch, e, it, next_is_comm(sch, it),
                                                      next_compute(sch, it))
                               ELSE e,
                               it + 1, optimizer)
            ELSE IF type = "RECV_POST_VALIDATION"
            THEN until_pv_skip(sch, Note(e, "recv_post_validation", it, <<>>, -1),
                               it + 1, optimizer)
            ELSE IF type = "SEND_POST_VALIDATION"
            THEN until_pv_skip(sch, Note(e, "send_post_validation", it, <<>>, -1),
                               it + 1, optimizer)
            ELSE IF type = "POST_VALIDATION"
            THEN [e |-> post_validation(sch, e, it, optimizer), it |-> it,
                  succeed |-> IF optimizer.succeed THEN "True" ELSE "False"]
            ELSE [e |-> Raise(Note(e, "unexpected", it, <<>>, -1)), it |-> it,
                  succeed |-> "None"]

\* The while loop of lines 338-344: the dummy receives of a rollback.
RECURSIVE rollback_recv(_, _, _)
rollback_recv(sch, e, it) ==
    IF ~e.ok \/ it >= Len(sch) THEN e
    ELSE rollback_recv(sch,
                       IF sch[it + 1].type = "RECV_FORWARD" /\ sch[it + 1].rollback
                       THEN add_communication(sch, e, it, FALSE, -1)
                       ELSE e,
                       it + 1)

\* Lines 311 and 334-355: the assertions on succeed, the dummy receives, the
\* reset on failure and the data iterators.
end_post_validation(sch, r, optimizer) ==
    LET succeed == r.succeed = "True"
        e1 == IF optimizer.do_prev_step THEN rollback_recv(sch, r.e, r.it) ELSE r.e
        e2 == IF succeed THEN r.e
              ELSE IF e1.ok THEN [e1 EXCEPT !.ti = reset(@)] ELSE e1
        it == IF succeed THEN r.it ELSE 0
        di == IF succeed THEN pop_from_buffer(clear_buffer(e2.di))
              ELSE pop_from_buffer(e2.di)
    IN IF ~r.e.ok THEN r.e
       ELSE IF optimizer.do_this_step /\ r.succeed = "None" THEN Raise(r.e)
       ELSE IF ~optimizer.do_this_step /\ r.succeed = "True" THEN Raise(r.e)
       ELSE IF ~e2.ok THEN e2
       ELSE [e2 EXCEPT !.di = di,
                       !.ti.states.it = it,
                       !.log = Append(@, Ev("return", it, <<>>, -1,
                                            Len(Pending(e2.ti.states))))]

\* TrainingIteration.run_until_post_validation
run_until_post_validation(sch, ti, di, optimizer) ==
    LET e == Env(ti, di, <<>>)
        it == ti.states.it
        saved == [e EXCEPT !.di = save_to_buffer(clear_buffer(@))]
        r == IF optimizer.do_this_step
             THEN until_pv_step(sch, saved, it, optimizer)
             ELSE until_pv_skip(sch, e, it, optimizer)
    IN IF it # 0 THEN Raise(e)
       ELSE IF optimizer.do_this_step /\ ~optimizer.do_prev_step THEN Raise(e)
       ELSE end_post_validation(sch, r, optimizer)

(***************************************************************************)
(* SchedNodeRuntime: the facade and the calls the training loop makes      *)
(***************************************************************************)
\* A ScheduledNode of this rank; comm_direction is "NONE" for None.
SNode(type, microbatch, comm_direction, rollback) ==
    [type |-> type, microbatch |-> microbatch, chunk |-> 0, seq_split_idx |-> 0,
     comm_direction |-> comm_direction, rollback |-> rollback]

RECV_FORWARD(m, rollback) == SNode("RECV_FORWARD", m, "PREV", rollback)
SEND_FORWARD(m) == SNode("SEND_FORWARD", m, "NEXT", FALSE)
RECV_BACKWARD(m) == SNode("RECV_BACKWARD", m, "NEXT", FALSE)
SEND_BACKWARD(m) == SNode("SEND_BACKWARD", m, "PREV", FALSE)
Compute(type, m) == SNode(type, m, "NONE", FALSE)

\* The schedules the cache may hold for this rank (update_schedule).
\* Two microbatches with optimizer post-validation after the first forward.
Schedule_pv ==
    <<RECV_FORWARD(0, FALSE), Compute("F", 0), SEND_FORWARD(0),
      Compute("RECV_POST_VALIDATION", 0), Compute("SEND_POST_VALIDATION", 0),
      Compute("POST_VALIDATION", 0),
      RECV_FORWARD(1, TRUE), Compute("F", 1), SEND_FORWARD(1),
      RECV_BACKWARD(0), Compute("B", 0), SEND_BACKWARD(0), Compute("W", 0),
      RECV_BACKWARD(1), Compute("B", 1), SEND_BACKWARD(1), Compute("W", 1)>>

\* 1F1B without post-validation nodes; the second backward is fused.
Schedule_1f1b ==
    <<RECV_FORWARD(0, FALSE), Compute("F", 0), SEND_FORWARD(0),
      RECV_FORWARD(1, FALSE), Compute("F", 1), SEND_FORWARD(1),
      RECV_BACKWARD(0), Compute("B", 0), SEND_BACKWARD(0),
      RECV_BACKWARD(1), Compute("BW", 1), SEND_BACKWARD(1), Compute("W", 0)>>

\* Post-validation before any forward; a receive batched ahead of its use.
Schedule_pv_first ==
    <<Compute("RECV_POST_VALIDATION", 0), Compute("POST_VALIDATION", 0),
      RECV_FORWARD(0, TRUE), RECV_FORWARD(1, FALSE), Compute("F", 0), Compute("F", 1),
      SEND_FORWARD(0), SEND_FORWARD(1), RECV_BACKWARD(0), Compute("BW", 0),
      SEND_BACKWARD(0)>>

\* A schedule with an output-embedding pass T.
Schedule_t ==
    <<RECV_FORWARD(0, FALSE), Compute("F", 0), Compute("T", 0), SEND_FORWARD(0)>>

\* Three microbatches whose inputs are received one microbatch ahead of
\* the forward pass that takes them; every backward is fused.
Schedule_ahead ==
    <<RECV_FORWARD(0, FALSE), RECV_FORWARD(1, FALSE), Compute("F", 0),
      RECV_FORWARD(2, FALSE), SEND_FORWARD(0), Compute("F", 1), SEND_FORWARD(1),
      Compute("F", 2), SEND_FORWARD(2),
      RECV_BACKWARD(0), Compute("BW", 0), SEND_BACKWARD(0),
      RECV_BACKWARD(1), Compute("BW", 1), SEND_BACKWARD(1),
      RECV_BACKWARD(2), Compute("BW", 2), SEND_BACKWARD(2)>>

Schedules == {Schedule_pv, Schedule_1f1b, Schedule_pv_first, Schedule_t, Schedule_ahead}

\* The optimizer keyword of a call: absent, None, or an optimizer object with
\* its do_this_step, do_prev_step and what its post_validation will report.
Optimizer(given, do_this_step, do_prev_step, succeed) ==
    [given |-> given, do_this_step |-> do_this_step, do_prev_step |-> do_prev_step,
     succeed |-> succeed]

\* kwargs of a facade call: forward_only is "absent", "True" or "False".
Kwargs ==
    {[optimizer |-> Optimizer(g, FALSE, FALSE, FALSE), forward_only |-> f] :
        g \in {"absent"}, f \in {"absent", "True", "False"}}
    \cup {[optimizer |-> Optimizer("None", FALSE, FALSE, FALSE), forward_only |-> "False"]}
    \cup {[optimizer |-> Optimizer("object", a, b, c), forward_only |-> "False"] :
            a \in BOOLEAN, b \in BOOLEAN, c \in BOOLEAN}

\* SchedNodeRuntime.__call__: kwargs.get("optimizer") is None -> run
Route(kwargs) == IF kwargs.optimizer.given = "object" THEN "post_validate" ELSE "run"

\* SchedNodeRuntime.prepare: the part of the TrainingIterationConfig that
\* differs between calls.
prepare(kwargs) == [forward_only |-> kwargs.forward_only = "True"]

VARIABLES
    enable_optimizer_post_validation,  \* get_args().enable_optimizer_post_validation
    schedules,       \* the cached schedule of this rank (conf.schedules)
    curr_iteration,  \* SchedNodeRuntime.curr_iteration
    next_iteration,  \* SchedNodeRuntime.next_iteration
    iteration_id,    \* SchedNodeRuntime.iteration_id
    data_iterator,   \* the RollbackDataIteratorWrapper the calls are given
    ncalls,          \* number of facade calls made
    log,             \* observation: what the last call did, in order
    rres,            \* the last call: method, outcome, kwargs, iteration run
    prev             \* observation: rres and log of the call before

rtVars == <<enable_optimizer_post_validation, schedules, curr_iteration, next_iteration,
            iteration_id, data_iterator, ncalls, log, rres, prev>>

MaxCalls == 4

NoCall == [op |-> "new", ok |-> TRUE,
           kwargs |-> [optimizer |-> Optimizer("absent", FALSE, FALSE, FALSE),
                       forward_only |-> "absent"],
           built |-> FALSE, it0 |-> 0]

RuntimeStart(sch, enable) ==
    /\ enable_optimizer_post_validation = enable
    /\ schedules = sch
    /\ curr_iteration = NoIteration
    /\ next_iteration = NoIteration
    /\ iteration_id = 0
    /\ data_iterator = DataIterator_init
    /\ ncalls = 0
    /\ log = <<>>
    /\ rres = NoCall
    /\ prev = [rres |-> NoCall, log |-> <<>>]

\* SchedNodeRuntime.__init__ on a rank whose schedule has been cached
InitRuntime == \E sch \in Schedules, enable \in BOOLEAN : RuntimeStart(sch, enable)

IdleRuntime == RuntimeStart(Schedule_t, FALSE)

\* A facade call that raised before it touched the runtime.
Raised(op, kwargs) ==
    /\ rres' = [op |-> op, ok |-> FALSE, kwargs |-> kwargs, built |-> FALSE, it0 |-> -1]
    /\ log' = <<>>
    /\ UNCHANGED <<curr_iteration, next_iteration, iteration_id, data_iterator>>

\* A run that empties next_iteration also when it builds a fresh iteration.
SchedNodeRuntime_run_drops_next(kwargs) ==
    /\ ncalls < MaxCalls
    /\ Route(kwargs) = "run"
    /\ LET no_current == \/ curr_iteration = NoIteration
                         \/ ~enable_optimizer_post_validation
                         \/ next_iteration = NoIteration
           build == no_current \/ kwargs.forward_only = "True"
           ti == IF build THEN TrainingIteration(prepare(kwargs), iteration_id)
                 ELSE next_iteration
       IN IF ~no_current /\ kwargs.forward_only = "absent"
          THEN Raised("run", kwargs)
          ELSE \E r \in {TrainingIteration_run(schedules, ti, data_iterator)} :
               /\ curr_iteration' = r.ti
               /\ next_iteration' = NoIteration
               /\ iteration_id' = IF build THEN iteration_id + 1 ELSE iteration_id
               /\ data_iterator' = r.di
               /\ log' = r.log
               /\ rres' = [op |-> "run", ok |-> r.ok, kwargs |-> kwargs,
                           built |-> build, it0 |-> ti.states.it]
    /\ ncalls' = ncalls + 1
    /\ prev' = [rres |-> rres, log |-> log]
    /\ UNCHANGED <<enable_optimizer_post_validation, schedules>>

\* SchedNodeRuntime.run, reached through __call__
SchedNodeRuntime_run(kwargs) ==
    /\ ncalls < MaxCalls
    /\ Route(kwargs) = "run"
    /\ LET no_current == \/ curr_iteration = NoIteration
                         \/ ~enable_optimizer_post_validation
                         \/ next_iteration = NoIteration
           build == no_current \/ kwargs.forward_only = "True"
           ti == IF build THEN TrainingIteration(prepare(kwargs), iteration_id)
                 ELSE next_iteration
       IN IF ~no_current /\ kwargs.forward_only = "absent"
          THEN Raised("run", kwargs)
          ELSE \E r \in {TrainingIteration_run(schedules, ti, data_iterator)} :
               /\ curr_iteration' = r.ti
               /\ next_iteration' = IF build THEN next_iteration ELSE NoIteration
               /\ iteration_id' = IF build THEN iteration_id + 1 ELSE iteration_id
               /\ data_iterator' = r.di
               /\ log' = r.log
               /\ rres' = [op |-> "run", ok |-> r.ok, kwargs |-> kwargs,
                           built |-> build, it0 |-> ti.states.it]
    /\ ncalls' = ncalls + 1
    /\ prev' = [rres |-> rres, log |-> log]
    /\ UNCHANGED <<enable_optimizer_post_validation, schedules>>

\* SchedNodeRuntime.post_validate, reached through __call__
SchedNodeRuntime_post_validate(kwargs) ==
    /\ ncalls < MaxCalls
    /\ Route(kwargs) = "post_validate"
    /\ LET ti == TrainingIteration(prepare(kwargs), iteration_id)
       IN IF curr_iteration = NoIteration
          THEN Raised("post_validate", kwargs)
          ELSE \E r \in {run_until_post_validation(schedules, ti, data_iterator,
                                                   kwargs.optimizer)} :
               /\ curr_iteration' = reset(curr_iteration)
               /\ next_iteration' = r.ti
               /\ iteration_id' = iteration_id + 1
               /\ data_iterator' = r.di
               /\ log' = r.log
               /\ rres' = [op |-> "post_validate", ok |-> r.ok, kwargs |-> kwargs,
                           built |-> TRUE, it0 |-> 0]
    /\ ncalls' = ncalls + 1
    /\ prev' = [rres |-> rres, log |-> log]
    /\ UNCHANGED <<enable_optimizer_post_validation, schedules>>

(***************************************************************************)
(* ======================  SpQueue (runtime.py)  ========================= *)
(* A pushed tensor is named by its position in the order of the pushes.    *)
(***************************************************************************)
\* SpQueue.__init__
SpQueue(num_seq_splits) ==
    [ready_queue |-> <<>>, tmp_stack |-> <<>>, num_seq_splits |-> num_seq_splits]

\* SpQueue.push
SpQueue_push(q, tensor) ==
    LET tmp_stack == Append(q.tmp_stack, tensor)
    IN IF Len(tmp_stack) = q.num_seq_splits
       THEN [q EXCEPT !.ready_queue = Append(@, tmp_stack), !.tmp_stack = <<>>]
       ELSE [q EXCEPT !.tmp_stack = tmp_stack]

\* A pop that takes the bottom of the oldest group: ready_queue[0].pop(0).
SpQueue_pop_bottom(q) ==
    IF q.ready_queue = <<>> THEN [q |-> q, ret |-> 0, ok |-> FALSE]
    ELSE LET group == Head(q.ready_queue)
             rest == Tail(group)
         IN [q |-> [q EXCEPT !.ready_queue =
                              IF rest = <<>> THEN Tail(@) ELSE <<rest>> \o Tail(@)],
             ret |-> Head(group), ok |-> TRUE]

\* SpQueue.pop: ok is FALSE when "assert self.ready_queue" fails.
SpQueue_pop(q) ==
    IF q.ready_queue = <<>> THEN [q |-> q, ret |-> 0, ok |-> FALSE]
    ELSE LET group == Head(q.ready_queue)
             rest == SubSeq(group, 1, Len(group) - 1)
         IN [q |-> [q EXCEPT !.ready_queue =
                              IF rest = <<>> THEN Tail(@) ELSE <<rest>> \o Tail(@)],
             ret |-> group[Len(group)], ok |-> TRUE]

VARIABLES
    spq,        \* the SpQueue object
    npush,      \* number of push calls so far
    popped,     \* observation: the tensors the pops have returned, in order
    spres       \* the last call and whether it returned

spqVars == <<spq, npush, popped, spres>>

\* Bounds of the SpQueue model.
MaxSplits == 3
MaxPush == 6

SpQueueStart(n) ==
    /\ spq = SpQueue(n)
    /\ npush = 0
    /\ popped = <<>>
    /\ spres = [op |-> "init", ok |-> TRUE, ret |-> 0]

\* num_seq_splits is a positive number of sequence splits.
InitSpQueue == \E n \in 1..MaxSplits : SpQueueStart(n)

IdleSpQueue == SpQueueStart(1)

Push ==
    /\ npush < MaxPush
    /\ spq' = SpQueue_push(spq, npush + 1)
    /\ npush' = npush + 1
    /\ spres' = [op |-> "push", ok |-> TRUE, ret |-> 0]
    /\ UNCHANGED popped

SpPop ==
    LET r == SpQueue_pop(spq)
    IN /\ spq' = r.q
       /\ popped' = IF r.ok THEN Append(popped, r.ret) ELSE popped
       /\ spres' = [op |-> "pop", ok |-> r.ok, ret |-> r.ret]
       /\ UNCHANGED npush

(***************************************************************************)
(* =====================  ActivationStorePool (offload.py)  ============== *)
(* The stores are objects: objs[id] is the ActivationStore with identity   *)
(* id, and _pool and _queue hold identities.                               *)
(***************************************************************************)
VARIABLES
    objs,        \* the ActivationStore objects constructed so far
    _pool,       \* ActivationStorePool._pool
    _queue,      \* ActivationStorePool._queue
    saved,       \* observation: what get_for_save returned, in order
    handed,      \* observation: what get_for_resume returned, in order
    pres         \* the last call on the pool, its outcome and return value

poolVars == <<objs, _pool, _queue, saved, handed, pres>>

\* Bound of the pool model: get_for_save calls over the whole run.
MaxGets == 4

PRes(op, ok, ret) == [op |-> op, ok |-> ok, ret |-> ret]

\* ActivationStorePool.__init__
InitPool ==
    /\ objs = <<>>
    /\ _pool = <<>>
    /\ _queue = <<>>
    /\ saved = <<>>
    /\ handed = <<>>
    /\ pres = PRes("init", TRUE, 0)

IdlePool == InitPool

\* get_for_resume that hands out the newest waiting store.
get_for_resume_newest(queue) ==
    IF queue = <<>> THEN [queue |-> queue, ok |-> FALSE, ret |-> 0]
    ELSE [queue |-> SubSeq(queue, 1, Len(queue) - 1), ok |-> TRUE,
          ret |-> queue[Len(queue)]]

\* ActivationStorePool.get_for_resume: assert self._queue; self._queue.pop(0)
get_for_resume(queue) ==
    IF queue = <<>> THEN [queue |-> queue, ok |-> FALSE, ret |-> 0]
    ELSE [queue |-> Tail(queue), ok |-> TRUE, ret |-> Head(queue)]

\* ActivationStorePool.is_empty
is_empty(queue) == Len(queue) = 0

\* get_for_save that constructs a store whatever the idle pool holds.
GetForSave_always_new ==
    /\ Len(saved) < MaxGets
    /\ objs' = Append(objs, ActivationStore_init)
    /\ _queue' = Append(_queue, Len(objs) + 1)
    /\ saved' = Append(saved, Len(objs) + 1)
    /\ pres' = PRes("get_for_save", TRUE, Len(objs) + 1)
    /\ UNCHANGED <<_pool, handed>>

\* ActivationStorePool.get_for_save
GetForSave ==
    /\ Len(saved) < MaxGets
    /\ IF _pool # <<>>
       THEN \E r \in {reset_state(objs[_pool[Len(_pool)]])} :
               /\ _pool' = SubSeq(_pool, 1, Len(_pool) - 1)
               /\ objs' = [objs EXCEPT ![_pool[Len(_pool)]] = r.s]
               /\ IF r.ok
                  THEN /\ _queue' = Append(_queue, _pool[Len(_pool)])
                       /\ saved' = Append(saved, _pool[Len(_pool)])
                       /\ pres' = PRes("get_for_save", TRUE, _pool[Len(_pool)])
                  ELSE /\ pres' = PRes("get_for_save", FALSE, 0)
                       /\ UNCHANGED <<_queue, saved>>
       ELSE /\ objs' = Append(objs, ActivationStore_init)
            /\ _queue' = Append(_queue, Len(objs) + 1)
            /\ saved' = Append(saved, Len(objs) + 1)
            /\ pres' = PRes("get_for_save", TRUE, Len(objs) + 1)
            /\ UNCHANGED _pool
    /\ UNCHANGED handed

GetForResume ==
    \E r \in {get_for_resume(_queue)} :
        /\ _queue' = r.queue
        /\ handed' = IF r.ok THEN Append(handed, r.ret) ELSE handed
        /\ pres' = PRes("get_for_resume", r.ok, r.ret)
        /\ UNCHANGED <<objs, _pool, saved>>

\* ActivationStorePool.release
Release(id) ==
    \E r \in {resume_release(objs[id])} :
        /\ objs' = [objs EXCEPT ![id] = r.s]
        /\ _pool' = IF r.ok THEN Append(_pool, id) ELSE _pool
        /\ pres' = PRes("release", r.ok, 0)
        /\ UNCHANGED <<_queue, saved, handed>>

\* release(store) by the caller that got the store from get_for_resume and
\* has not released it since.
ReleaseHanded(id) ==
    /\ \E k \in 1..Len(handed) : handed[k] = id
    /\ \A k \in 1..Len(_queue) : _queue[k] # id
    /\ \A k \in 1..Len(_pool) : _pool[k] # id
    /\ Release(id)

IsEmpty ==
    /\ pres' = PRes("is_empty", TRUE, is_empty(_queue))
    /\ UNCHANGED <<objs, _pool, _queue, saved, handed>>

\* The owner of a store takes it through one save, the offload and the resume
\* of it; a call that raises ends the sequence where it stands.
UseStore(id) ==
    \E a \in {_save_tensor(objs[id], NoRecompute, Acc(T_a))} :
    \E b \in {IF a.ok THEN offload(a.s, 0) ELSE [s |-> a.s, ok |-> FALSE]} :
    \E c \in {IF b.ok THEN offload_release(b.s) ELSE b} :
    \E d \in {IF c.ok THEN prepare_resume(c.s) ELSE c} :
    \E e \in {IF d.ok THEN resume(d.s) ELSE d} :
    \E f \in {IF e.ok THEN _resume_tensor(e.s, a.ret) ELSE e} :
        /\ objs' = [objs EXCEPT ![id] = f.s]
        /\ pres' = PRes("use", f.ok, 0)
        /\ UNCHANGED <<_pool, _queue, saved, handed>>

(***************************************************************************)
(* =============  The packing step under recorded slots  ================= *)
(* A store records slots of chosen element counts and types through the    *)
(* save hook, then _allocate_cpu_buffers packs them.                       *)
(***************************************************************************)
VARIABLES
    packing,    \* the ActivationStore whose slots are packed
    packres     \* "saving", "allocated" or "raised"

packVars == <<packing, packres>>

\* Bound of the packing model: slots recorded before the packing step.
MaxTensors == 4

\* The element counts of the recorded tensors, by element type.
Numels == [half |-> {1, 100, 129, 256, 512}, float |-> {1, 129}]

InitPack ==
    /\ packing = ActivationStore_init
    /\ packres = "saving"

IdlePack == InitPack

\* The save hook on a new contiguous tensor of n elements (a storage of its
\* own, so no alias of a recorded one).
RecordSlot(n, dtype) ==
    /\ packres = "saving"
    /\ Len(packing._offload_tensor_info) < MaxTensors
    /\ \E r \in {_save_tensor(packing, NoRecompute,
                              Acc(Tensor(10 + Len(packing._gpu_store), 0,
                                         <<n>>, <<1>>, dtype)))} :
          /\ packing' = r.s
          /\ packres' = IF r.ok THEN "saving" ELSE "raised"

\* _allocate_cpu_buffers as offload calls it, after the slots are recorded.
AllocateCpuBuffers ==
    /\ packres = "saving"
    /\ packing._state = State_SAVING
    /\ \E r \in {_allocate_cpu_buffers(packing, 0)} :
          /\ packing' = r.s
          /\ packres' = IF r.ok THEN "allocated" ELSE "raised"

(***************************************************************************)
(* ======================  update_schedule (runtime.py)  ================= *)
(* Every rank of the world calls update_schedule.  The world holds         *)
(* groups pipeline groups of pp_size stages each; all_gather_object runs   *)
(* over the whole world and returns on a rank once every rank has put its  *)
(* object in.                                                              *)
(***************************************************************************)
VARIABLES
    pp_size,          \* get_pipeline_model_parallel_world_size()
    groups,           \* number of pipeline groups in the world
    c_arg,            \* rank -> the argument c of its call
    upc,              \* rank -> where its call of update_schedule stands
    ag_arguments,     \* rank -> what the rank put into the first all-gather
    ag_result,        \* rank -> what the rank put into the second all-gather
    schedule_cache,   \* rank -> the global schedule_cache of the process
    scheduler_calls,  \* observation: rank -> invocations of the scheduler
    non_null          \* observation: rank -> non-null results it filtered out

updVars == <<pp_size, groups, c_arg, upc, ag_arguments, ag_result,
             schedule_cache, scheduler_calls, non_null>>

\* Bounds of the update_schedule model.
MaxPipeline == 3
MaxGroups == 2

\* torch.distributed.get_world_size() and the ranks of the world.
get_world_size == pp_size * groups
Ranks == 0..(get_world_size - 1)

\* parallel_state.get_pipeline_model_parallel_rank() of a rank.
get_pipeline_model_parallel_rank(rank) == rank \div groups

\* megatron.training.utils.is_second_last_pipeline_stage() on a rank.
is_second_last_pipeline_stage(rank) ==
    get_pipeline_model_parallel_rank(rank) = pp_size - 2

\* What a rank measured: f of the tuple it puts into the first all-gather.
LocalArguments(rank) == [f |-> 10 + rank, mem_limit |-> 100 + rank]

\* A Python object that may be None.
NoneObj == [none |-> TRUE, value |-> <<>>]
Obj(v) == [none |-> FALSE, value |-> v]

\* The slot of a rank in an all-gather: empty until the rank has put its
\* object in.
Absent == <<>>

\* The scheduler callback: a schedule (a node list per stage) computed from
\* the gathered arguments and c.
scheduler(n_stage, f, c) ==
    [stage \in 0..(n_stage - 1) |->
        <<[type |-> "F", stage |-> stage, cost |-> f[stage][1].f, comm |-> c]>>]

\* list(filter(lambda x: x is not None, ag_result))
RECURSIVE NotNone(_, _)
NotNone(result, rank) ==
    IF rank \notin DOMAIN result THEN <<>>
    ELSE (IF ~result[rank][1].none THEN <<result[rank][1].value>> ELSE <<>>)
         \o NotNone(result, rank + 1)

UpdStart(p, g, c) ==
    /\ pp_size = p
    /\ groups = g
    /\ c_arg = c
    /\ upc = [r \in 0..(p * g - 1) |-> "idle"]
    /\ ag_arguments = [r \in 0..(p * g - 1) |-> Absent]
    /\ ag_result = [r \in 0..(p * g - 1) |-> Absent]
    /\ schedule_cache = [r \in 0..(p * g - 1) |-> NoneObj]
    /\ scheduler_calls = [r \in 0..(p * g - 1) |-> 0]
    /\ non_null = [r \in 0..(p * g - 1) |-> 0]

\* The values of c the ranks call with: the same on every rank, or measured
\* differently on every second rank.
CArguments(n) ==
    {[r \in 0..(n - 1) |-> 0], [r \in 0..(n - 1) |-> 2],
     [r \in 0..(n - 1) |-> 2 * (r % 2)]}

InitUpd ==
    \E p \in 2..MaxPipeline : \E g \in 1..MaxGroups :
    \E c \in CArguments(p * g) : UpdStart(p, g, c)

IdleUpd == UpdStart(2, 1, [r \in 0..1 |-> 0])

\* update_schedule up to the first all_gather_object: the rank puts in its
\* arguments.
GatherArguments(rank) ==
    /\ upc[rank] = "idle"
    /\ ag_arguments' = [ag_arguments EXCEPT ![rank] = <<LocalArguments(rank)>>]
    /\ upc' = [upc EXCEPT ![rank] = "gathering"]
    /\ UNCHANGED <<pp_size, groups, c_arg, ag_result, schedule_cache,
                   scheduler_calls, non_null>>

\* From the return of the first all-gather to the second one: the scheduler
\* runs on the rank the predicate designates, the others put in None.
GatherResult(rank) ==
    /\ upc[rank] = "gathering"
    /\ \A r \in Ranks : ag_arguments[r] # Absent
    /\ IF is_second_last_pipeline_stage(rank)
       THEN \E s \in {scheduler(pp_size, ag_arguments,
                                Max2(c_arg[rank], 1))} :
               /\ schedule_cache' = [schedule_cache EXCEPT ![rank] = Obj(s)]
               /\ scheduler_calls' = [scheduler_calls EXCEPT ![rank] = @ + 1]
               /\ ag_result' = [ag_result EXCEPT ![rank] = <<Obj(s)>>]
       ELSE /\ ag_result' = [ag_result EXCEPT ![rank] = <<NoneObj>>]
            /\ UNCHANGED <<schedule_cache, scheduler_calls>>
    /\ upc' = [upc EXCEPT ![rank] = "scattering"]
    /\ UNCHANGED <<pp_size, groups, c_arg, ag_arguments, non_null>>

\* From the return of the second all-gather to the end of the call.
Return(rank) ==
    /\ upc[rank] = "scattering"
    /\ \A r \in Ranks : ag_result[r] # Absent
    /\ IF is_second_last_pipeline_stage(rank)
       THEN /\ upc' = [upc EXCEPT ![rank] = "returned"]
            /\ UNCHANGED <<schedule_cache, non_null>>
       ELSE \E l \in {NotNone(ag_result, 0)} :
               /\ non_null' = [non_null EXCEPT ![rank] = Len(l)]
               /\ IF Len(l) = 1
                  THEN /\ schedule_cache' = [schedule_cache EXCEPT ![rank] = Obj(l[1])]
                       /\ upc' = [upc EXCEPT ![rank] = "returned"]
                  ELSE /\ schedule_cache' = [schedule_cache EXCEPT ![rank] = Obj(l)]
                       /\ upc' = [upc EXCEPT ![rank] = "raised"]
    /\ UNCHANGED <<pp_size, groups, c_arg, ag_arguments, ag_result,
                   scheduler_calls>>

(***************************************************************************)
(* ==============  PartialRecompute under its callers  =================== *)
(* The module-level partial_recompute object: callers arm requests and     *)
(* autograd calls the save hook, in any order.                             *)
(***************************************************************************)
VARIABLES
    _next_recompute_tensor,  \* PartialRecompute._next_recompute_tensor
    hooklog                  \* observation: the calls made so far, in order

partialVars == <<_next_recompute_tensor, hooklog>>

\* Bound of the PartialRecompute model: calls over the whole run.
MaxHookCalls == 4

\* The requests callers arm and the tensors autograd saves: T_aT is a view
\* of T_a, T_s and T_b are views of neither.
Requests ==
    { [tensor |-> Acc(T_b), parents |-> <<Acc(T_a), Acc(T_p)>>],
      [tensor |-> Acc(T_a), parents |-> <<Acc(T_b)>>] }

SavedTensors == {Acc(T_a), Acc(T_aT), Acc(T_s), Acc(T_b)}

\* PartialRecompute.__init__
InitPartial ==
    /\ _next_recompute_tensor = NoRecompute
    /\ hooklog = <<>>

IdlePartial == InitPartial

\* A call of the log: its name, argument, the request armed before and after
\* it, whether it returned, and what it returned.
HookCall(op, arg, before, after, ok, type, parents, tensor) ==
    [op |-> op, arg |-> arg, before |-> before, after |-> after, ok |-> ok,
     type |-> type, parents |-> parents, tensor |-> tensor]

\* partial_recompute._recompute_tensor(tensor, parents, function, rng_states)
RecomputeTensor(a) ==
    /\ Len(hooklog) < MaxHookCalls
    /\ \E r \in {_recompute_tensor(_next_recompute_tensor, a.tensor, a.parents)} :
          /\ _next_recompute_tensor' = r.p
          /\ hooklog' = Append(hooklog,
                 HookCall("_recompute_tensor", a, _next_recompute_tensor, r.p,
                          r.ok, "none", <<>>, NoTensor))

\* partial_recompute._save_tensor(tensor)
PartialSave(t) ==
    /\ Len(hooklog) < MaxHookCalls
    /\ \E r \in {PartialRecompute_save_tensor(_next_recompute_tensor, t)} :
          /\ _next_recompute_tensor' = r.p
          /\ hooklog' = Append(hooklog,
                 HookCall("_save_tensor", [tensor |-> t, parents |-> <<>>],
                          _next_recompute_tensor, r.p, TRUE, r.type, r.parents,
                          r.tensor))

(***************************************************************************)
(* ======================  validate_arguments (zbpp_utils.py)  =========== *)
(* The argument object is a record; an assertion that fails ends the call  *)
(* with the assignments made before it in place.  NoneInt stands for None  *)
(* in an integer field.                                                    *)
(***************************************************************************)
VARIABLES
    vargs,      \* the args object validate_arguments is called with
    given,      \* observation: the object as it was before the call
    vres        \* "new", "returned" or "raised"

valVars == <<vargs, given, vres>>

\* Bounds of the validate_arguments model.
MaxLayers == 6
MaxPipelineSize == 3

NoneInt == -1

\* The distributed-optimizer settings tried together.
OptimizerSettings ==
    { [use_distributed_optimizer |-> FALSE, overlap_param_gather |-> FALSE,
       overlap_grad_reduce |-> FALSE],
      [use_distributed_optimizer |-> TRUE, overlap_param_gather |-> FALSE,
       overlap_grad_reduce |-> FALSE],
      [use_distributed_optimizer |-> TRUE, overlap_param_gather |-> TRUE,
       overlap_grad_reduce |-> FALSE],
      [use_distributed_optimizer |-> TRUE, overlap_param_gather |-> FALSE,
       overlap_grad_reduce |-> TRUE] }

\* An argument object.
Arguments(untie, defer, zbv, v1f1b, zb, pv, layers, pp, per_virtual, setup, opt, fp16, pending) ==
    [untie_embeddings_and_output_weights |-> untie,
     defer_embedding_wgrad_compute |-> defer,
     zero_bubble_v_schedule |-> zbv,
     enable_1f1b_v |-> v1f1b,
     enable_zero_bubble |-> zb,
     enable_optimizer_post_validation |-> pv,
     num_layers |-> layers,
     transformer_pipeline_model_parallel_size |-> pp,
     pipeline_model_parallel_size |-> pp,
     num_layers_per_virtual_pipeline_stage |-> per_virtual,
     virtual_pipeline_model_parallel_size |-> NoneInt,
     zero_bubble_v_schedule_mem_setup |-> setup,
     use_distributed_optimizer |-> opt.use_distributed_optimizer,
     overlap_param_gather |-> opt.overlap_param_gather,
     overlap_grad_reduce |-> opt.overlap_grad_reduce,
     fp16 |-> fp16,
     zero_bubble_max_pending_backward |-> [str |-> pending],
     zero_bubble_adaptive_memory_limit_percentile |-> 85]

\* The argument objects the call is tried on.
ArgumentSets ==
    { Arguments(untie, defer, zbv, v1f1b, zb, pv, layers, pp, per_virtual,
                setup, opt, fp16, pending) :
         untie \in BOOLEAN, defer \in BOOLEAN, zbv \in BOOLEAN,
         v1f1b \in BOOLEAN, zb \in BOOLEAN, pv \in BOOLEAN,
         layers \in 1..MaxLayers, pp \in 1..MaxPipelineSize,
         per_virtual \in {NoneInt, 1}, setup \in {"zb", "full"},
         opt \in OptimizerSettings, fp16 \in BOOLEAN,
         pending \in {"auto", "8"} }

\* int(s) of the strings the option takes in the model.
int(s) == IF s = "8" THEN 8 ELSE 0

\* The outcome of a block of the function: the object and whether every
\* assertion so far held.
Checked(a, ok) == [a |-> a, ok |-> ok]

\* lines 51-52
validate_embedding(a) ==
    Checked(a, /\ a.untie_embeddings_and_output_weights = TRUE
               /\ a.defer_embedding_wgrad_compute = FALSE)

\* The V-schedule block without the requirement of an even layer count.
validate_v_schedule_any(a) ==
    IF ~(a.zero_bubble_v_schedule \/ a.enable_1f1b_v) THEN Checked(a, TRUE)
    ELSE LET num_layers_per_pipeline_stage ==
                 a.num_layers \div a.transformer_pipeline_model_parallel_size
         IN IF a.num_layers % a.transformer_pipeline_model_parallel_size # 0
            THEN Checked(a, FALSE)
            ELSE IF a.num_layers_per_virtual_pipeline_stage # NoneInt
            THEN Checked(a, FALSE)
            ELSE Checked([a EXCEPT
                            !.virtual_pipeline_model_parallel_size = 2,
                            !.num_layers_per_virtual_pipeline_stage =
                                num_layers_per_pipeline_stage \div 2],
                         TRUE)

\* lines 54-64
validate_v_schedule(a) ==
    IF ~(a.zero_bubble_v_schedule \/ a.enable_1f1b_v) THEN Checked(a, TRUE)
    ELSE LET num_layers_per_pipeline_stage ==
                 a.num_layers \div a.transformer_pipeline_model_parallel_size
         IN IF a.num_layers % a.transformer_pipeline_model_parallel_size # 0
            THEN Checked(a, FALSE)
            ELSE IF num_layers_per_pipeline_stage % 2 # 0
            THEN Checked(a, FALSE)
            ELSE IF a.num_layers_per_virtual_pipeline_stage # NoneInt
            THEN Checked(a, FALSE)
            ELSE Checked([a EXCEPT
                            !.virtual_pipeline_model_parallel_size = 2,
                            !.num_layers_per_virtual_pipeline_stage =
                                num_layers_per_pipeline_stage \div 2],
                         TRUE)

\* lines 66-68 without the assignment that turns zero bubble on.
validate_zero_bubble_v_unset(a) ==
    IF ~a.zero_bubble_v_schedule THEN Checked(a, TRUE)
    ELSE Checked(a, a.zero_bubble_v_schedule_mem_setup \in {"min", "half", "zb"})

\* lines 66-68
validate_zero_bubble_v(a) ==
    IF ~a.zero_bubble_v_schedule THEN Checked(a, TRUE)
    ELSE Checked([a EXCEPT !.enable_zero_bubble = TRUE],
                 a.zero_bubble_v_schedule_mem_setup \in {"min", "half", "zb"})

\* The 1F1B-V block without the post-validation assertion.
validate_1f1b_v_lenient(a) ==
    IF ~a.enable_1f1b_v THEN Checked(a, TRUE)
    ELSE Checked(a, /\ a.pipeline_model_parallel_size > 1
                    /\ ~a.enable_zero_bubble)

\* lines 70-73
validate_1f1b_v(a) ==
    IF ~a.enable_1f1b_v THEN Checked(a, TRUE)
    ELSE Checked(a, /\ a.pipeline_model_parallel_size > 1
                    /\ ~a.enable_zero_bubble
                    /\ ~a.enable_optimizer_post_validation)

\* lines 75-87 without the assertion on the pipeline size.
validate_zero_bubble_single_stage(a) ==
    IF ~a.enable_zero_bubble
    THEN Checked([a EXCEPT !.enable_optimizer_post_validation = FALSE], TRUE)
    ELSE IF a.use_distributed_optimizer
            /\ (a.overlap_param_gather \/ a.overlap_grad_reduce)
    THEN Checked(a, FALSE)
    ELSE IF a.enable_optimizer_post_validation /\ ~a.fp16 THEN Checked(a, FALSE)
    ELSE IF a.zero_bubble_max_pending_backward = [str |-> "auto"]
    THEN Checked(a, a.zero_bubble_adaptive_memory_limit_percentile > 0)
    ELSE Checked([a EXCEPT !.zero_bubble_max_pending_backward =
                              [int |-> int(@.str)]],
                 TRUE)

\* lines 75-87
validate_zero_bubble(a) ==
    IF ~a.enable_zero_bubble
    THEN Checked([a EXCEPT !.enable_optimizer_post_validation = FALSE], TRUE)
    ELSE IF a.use_distributed_optimizer
            /\ (a.overlap_param_gather \/ a.overlap_grad_reduce)
    THEN Checked(a, FALSE)
    ELSE IF a.pipeline_model_parallel_size <= 1 THEN Checked(a, FALSE)
    ELSE IF a.enable_optimizer_post_validation /\ ~a.fp16 THEN Checked(a, FALSE)
    ELSE IF a.zero_bubble_max_pending_backward = [str |-> "auto"]
    THEN Checked(a, a.zero_bubble_adaptive_memory_limit_percentile > 0)
    ELSE Checked([a EXCEPT !.zero_bubble_max_pending_backward =
                              [int |-> int(@.str)]],
                 TRUE)

\* validate_arguments(args): the blocks in order, up to the first assertion
\* that fails.
validate_arguments(a) ==
    LET e == validate_embedding(a)
        v == IF e.ok THEN validate_v_schedule(e.a) ELSE e
        z == IF v.ok THEN validate_zero_bubble_v(v.a) ELSE v
        o == IF z.ok THEN validate_1f1b_v(z.a) ELSE z
    IN IF o.ok THEN validate_zero_bubble(o.a) ELSE o

ValStart(a) ==
    /\ vargs = a
    /\ given = a
    /\ vres = "new"

InitVal == \E a \in ArgumentSets : ValStart(a)

IdleVal ==
    ValStart(Arguments(TRUE, FALSE, FALSE, FALSE, FALSE, FALSE, 1, 1, NoneInt,
                       "zb", CHOOSE o \in OptimizerSettings :
                                ~o.use_distributed_optimizer,
                       FALSE, "auto"))

ValidateArguments ==
    /\ vres = "new"
    /\ \E r \in {validate_arguments(vargs)} :
          /\ vargs' = r.a
          /\ vres' = IF r.ok THEN "returned" ELSE "raised"
    /\ UNCHANGED given

(***************************************************************************)
(* ==============  create_schedule called again and again  =============== *)
(* (zbv.py)  Graphs of one shape are built and create_schedule is called   *)
(* on each; every call's input and result is logged.  left holds what the  *)
(* previous call ended with in its locals schedule, end_time, max_bubble.  *)
(***************************************************************************)
VARIABLES
    rconfig,    \* the GraphConfig of every call of this run
    calls,      \* log: the graph and the result of each call, in order
    left        \* locals of the previous create_schedule call

repeatVars == <<rconfig, calls, left>>

\* Bound on the number of create_schedule calls in one run.
MaxRepeat == 3

\* The profiled costs (f, b, w, c) the graphs are built from.
RepeatCosts == {<<1, 1, 1, 0>>, <<1, 2, 1, 0>>, <<3, 1, 2, 2>>, <<2, 3, 3, 2>>}

RepeatGraph(cfg, costs) ==
    PipelineGraph(cfg.n_stages, cfg.n_micro, costs[1], costs[2], costs[3],
                  costs[4], f_mem_approx(1, 1, 1), b_mem_approx(1, 1, 1),
                  w_mem_approx(1), 0)

\* The locals of create_schedule holding what an earlier call has left.
create_schedule_locals_kept(g, old) == old

\* schedule, end_time, max_bubble = None, None, None        (line 283)
create_schedule_locals(g, old) == NoTry(g)

\* The body of the loops: the try r replaces the best so far when its bubble
\* is smaller, and an exception of the try ends the call (lines 289-294).
create_schedule_better(best, r) ==
    IF ~r.ok THEN [best EXCEPT !.ok = FALSE]
    ELSE IF best.max_bubble = -1 \/ r.max_bubble < best.max_bubble
    THEN r ELSE best

\* The loops of create_schedule over (fill_b, fill_f)       (lines 285-294)
RECURSIVE create_schedule_loop(_, _, _)
create_schedule_loop(g, k, best) ==
    IF k > Len(FillCombos) \/ ~best.ok THEN best
    ELSE create_schedule_loop(g, k + 1,
             create_schedule_better(best,
                 try_v_schedule(g, FillCombos[k].fill_f,
                                FillCombos[k].fill_b, NoApproved(g))))

\* The rest of create_schedule: the stage orders of the best schedule.
create_schedule_result(g, cfg, best) ==
    [ok |-> best.ok, locals |-> best,
     local_order |-> IF best.ok THEN LocalOrder(g, cfg, best.schedule)
                     ELSE <<>>]

\* create_schedule(config) as one call: its result and its final locals.
create_schedule(g, cfg, old) ==
    create_schedule_result(g, cfg,
        create_schedule_loop(g, 1, create_schedule_locals(g, old)))

RepeatStart(n_stage, n_micro) ==
    /\ rconfig = [max_chunks |-> 2, n_stages |-> n_stage, n_micro |-> n_micro]
    /\ calls = <<>>
    /\ left = NoTry(PipelineGraph(n_stage, n_micro, 1, 1, 1, 0, 2, -1, -1, 0))

InitRepeat == \E n_stage \in Stages, n_micro \in 1..MaxMicro :
                  RepeatStart(n_stage, n_micro)

IdleRepeat == RepeatStart(2, 1)

\* PipelineGraph(...).create_schedule(config) on a graph built for the call.
CreateSchedule(costs) ==
    /\ Len(calls) < MaxRepeat
    /\ \E r \in {create_schedule(RepeatGraph(rconfig, costs), rconfig, left)} :
          /\ calls' = Append(calls, [graph |-> RepeatGraph(rconfig, costs),
                                     ok |-> r.ok,
                                     local_order |-> r.local_order])
          /\ left' = r.locals
    /\ UNCHANGED rconfig

(***************************************************************************)
(* =================  NodeKey and ScheduledNode (graph.py)  ============== *)
(* get_prev_key on one node; layer_group_idx None is NoneInt.              *)
(***************************************************************************)
\* The members of FuncType.
FuncType ==
    {"F", "B", "W", "BW", "S", "T", "IF", "IB",
     "SEND_FORWARD", "RECV_FORWARD", "SEND_BACKWARD", "RECV_BACKWARD",
     "REDUCE_INPUT_EMBD_FORWARD", "BROADCAST_INPUT_EMBD_BACKWARD",
     "BROADCAST_OUTPUT_EMBD_S", "BROADCAST_OUTPUT_EMBD_T",
     "REDUCE_OUTPUT_EMBD_S", "REDUCE_OUTPUT_EMBD_T",
     "POST_VALIDATION", "SEND_POST_VALIDATION", "RECV_POST_VALIDATION"}

NodeKey(type, layer_group_idx, microbatch, seq_split_idx) ==
    [type |-> type, layer_group_idx |-> layer_group_idx,
     microbatch |-> microbatch, seq_split_idx |-> seq_split_idx]

\* ScheduledNode.get_key
get_key(node) ==
    NodeKey(node.type, node.layer_group_idx, node.microbatch, node.seq_split_idx)

\* What a call of get_prev_key ends with: the key returned (NoneObj for
\* None), or ok = FALSE when an assertion failed.
KeyResult(ok, key) == [ok |-> ok, key |-> key]

\* get_prev_key that walks on to the next layer group at the last one.
get_prev_key_no_turn(node, n_layer_groups) ==
    IF node.layer_group_idx = NoneInt THEN KeyResult(FALSE, NoneObj)
    ELSE IF node.type = "F"
    THEN IF node.layer_group_idx = 0 THEN KeyResult(TRUE, NoneObj)
         ELSE KeyResult(TRUE, Obj(NodeKey(node.type, node.layer_group_idx - 1,
                                          node.microbatch, node.seq_split_idx)))
    ELSE IF node.type \in {"B", "BW"}
    THEN IF node.layer_group_idx + 1 > n_layer_groups
         THEN KeyResult(FALSE, NoneObj)
         ELSE KeyResult(TRUE, Obj(NodeKey(node.type, node.layer_group_idx + 1,
                                          node.microbatch, node.seq_split_idx)))
    ELSE IF node.type # "W" THEN KeyResult(FALSE, NoneObj)
    ELSE KeyResult(TRUE, Obj(NodeKey("B", node.layer_group_idx,
                                     node.microbatch, node.seq_split_idx)))

\* ScheduledNode.get_prev_key(n_layer_groups)
get_prev_key(node, n_layer_groups) ==
    IF node.layer_group_idx = NoneInt THEN KeyResult(FALSE, NoneObj)
    ELSE IF node.type = "F"
    THEN IF node.layer_group_idx = 0 THEN KeyResult(TRUE, NoneObj)
         ELSE KeyResult(TRUE, Obj(NodeKey(node.type, node.layer_group_idx - 1,
                                          node.microbatch, node.seq_split_idx)))
    ELSE IF node.type \in {"B", "BW"}
    THEN LET prev_layer_group_idx == node.layer_group_idx + 1
         IN IF prev_layer_group_idx > n_layer_groups
            THEN KeyResult(FALSE, NoneObj)
            ELSE IF prev_layer_group_idx = n_layer_groups
            THEN KeyResult(TRUE, Obj(NodeKey("F", node.layer_group_idx,
                                             node.microbatch, node.seq_split_idx)))
            ELSE KeyResult(TRUE, Obj(NodeKey(node.type, prev_layer_group_idx,
                                             node.microbatch, node.seq_split_idx)))
    ELSE IF node.type # "W" THEN KeyResult(FALSE, NoneObj)
    ELSE KeyResult(TRUE, Obj(NodeKey("B", node.layer_group_idx,
                                     node.microbatch, node.seq_split_idx)))

VARIABLES
    knode,            \* the ScheduledNode get_prev_key is called on
    n_layer_groups,   \* its argument
    prev_key,         \* the key it returned
    kres              \* "new", "returned" or "raised"

keyVars == <<knode, n_layer_groups, prev_key, kres>>

\* Bounds of the get_prev_key model.
MaxLayerGroups == 4
MaxKeyMicro == 1
MaxKeySplit == 1

KeyStart(type, idx, microbatch, seq_split_idx, n) ==
    /\ knode = [type |-> type, stage |-> 0, microbatch |-> microbatch,
                chunk |-> 0, seq_split_idx |-> seq_split_idx,
                layer_group_idx |-> idx]
    /\ n_layer_groups = n
    /\ prev_key = NoneObj
    /\ kres = "new"

\* Nodes of every type, with layer_group_idx unset or anywhere in 0..n.
InitKey ==
    \E type \in FuncType, n \in 1..MaxLayerGroups, microbatch \in 0..MaxKeyMicro,
       seq_split_idx \in 0..MaxKeySplit :
        \E idx \in {NoneInt} \cup 0..n :
            KeyStart(type, idx, microbatch, seq_split_idx, n)

IdleKey == KeyStart("F", 0, 0, 0, 1)

GetPrevKey ==
    /\ kres = "new"
    /\ \E r \in {get_prev_key(knode, n_layer_groups)} :
          /\ prev_key' = r.key
          /\ kres' = IF r.ok THEN "returned" ELSE "raised"
    /\ UNCHANGED <<knode, n_layer_groups>>

(***************************************************************************)
(* =========  W nodes on a rank with model chunks (runtime.py)  ========== *)
(*                                                                         *)
(* TrainingIteration.run walking one rank's schedule, reduced to what the  *)
(* weight-gradient queue and the saved inputs see: an F node pushes its     *)
(* input for its chunk, a B node pops one and queues one unit for its      *)
(* chunk (schedule_b_impl ends with WeightGradStore.flush), a W node goes  *)
(* through schedule_w, every other node leaves both alone.  The            *)
(* schedules are the stage orders of create_schedule (two chunks per rank) *)
(* and single-chunk orders.                                                *)
(***************************************************************************)
VARIABLES
    wconf,          \* iteration_config: forward_only, num_microbatches,
                    \* schedules; multi_chunks is get_virtual_pipeline_number() > 1
    wit,            \* the loop index of run
    wqueue,         \* WeightGradStore.weight_grad_queue, per chunk
    w_clear_run,    \* states.w_clear_run, per chunk
    wlog,           \* one entry per dispatched W node
    wraised,        \* an exception left schedule_w or schedule_b_impl
    input_tensors,  \* bufs.input_tensors, one SpQueue per chunk
    wpops           \* one entry per dispatched B node: what it popped

wVars == <<wconf, wit, wqueue, w_clear_run, wlog, wraised, input_tensors, wpops>>

\* The graph config of a V schedule: two chunks per rank.
VConfig(n_stage, n_micro) ==
    [max_chunks |-> 2, n_stages |-> n_stage, n_micro |-> n_micro]

\* A node of a single-chunk schedule.
WNode(type, microbatch) ==
    [type |-> type, chunk |-> 0, stage |-> 0, microbatch |-> microbatch,
     layer_group_idx |-> 0]

FlatOrders ==
    {<<WNode("F", 0), WNode("F", 1), WNode("B", 0), WNode("W", 0),
       WNode("B", 1), WNode("W", 1)>>,
     <<WNode("F", 0), WNode("F", 1), WNode("B", 0), WNode("B", 1),
       WNode("W", 0), WNode("W", 1)>>,
     <<WNode("F", 0), WNode("B", 0), WNode("W", 0), WNode("F", 1),
       WNode("B", 1), WNode("W", 1), WNode("SEND_BACKWARD", 1)>>,
     <<WNode("F", 0), WNode("F", 1), WNode("F", 2), WNode("B", 0),
       WNode("B", 1), WNode("W", 0), WNode("B", 2), WNode("W", 1),
       WNode("W", 2)>>}

\* The number of microbatches of a schedule.
NumMicrobatches(sch) ==
    1 + CHOOSE m \in 0..Len(sch) :
            /\ \E k \in 1..Len(sch) : sch[k].microbatch = m
            /\ \A k \in 1..Len(sch) : sch[k].microbatch <= m

WStart(forward_only, multi_chunks, num_microbatches, sch) ==
    /\ wconf = [forward_only |-> forward_only, multi_chunks |-> multi_chunks,
                num_microbatches |-> num_microbatches, schedules |-> sch]
    /\ wit = 0
    /\ wqueue = [c \in Chunks |-> <<>>]
    /\ w_clear_run = [c \in Chunks |-> FALSE]
    /\ wlog = <<>>
    /\ wraised = FALSE
    /\ input_tensors = [c \in Chunks |-> SpQueue(1)]
    /\ wpops = <<>>

InitW ==
    \E forward_only \in BOOLEAN :
        \/ \E sch \in FlatOrders :
               WStart(forward_only, FALSE, NumMicrobatches(sch), sch)
        \/ \E n_stage \in Stages, n_micro \in 1..MaxMicro, costs \in RepeatCosts :
               \E cfg \in {VConfig(n_stage, n_micro)} :
               \E g \in {RepeatGraph(cfg, costs)} :
               \E r \in {create_schedule(g, cfg, NoTry(g))} :
                   /\ r.ok
                   /\ \E stage \in 0..(n_stage - 1) :
                          WStart(forward_only, TRUE, n_micro, r.local_order[stage])

IdleW == WStart(FALSE, FALSE, 1, <<WNode("F", 0)>>)

\* schedule_w, the first condition, ignoring the microbatch.
should_pop_pending_only(conf, scheduled_node, pending) == pending

\* schedule_w, the condition of its first branch.
should_pop(conf, scheduled_node, pending) ==
    \/ ~conf.multi_chunks /\ pending
    \/ /\ conf.multi_chunks
       /\ pending
       /\ scheduled_node.microbatch # conf.num_microbatches - 1

\* What schedule_w did for one node.
WEntry(it, scheduled_node, branch, before, ran) ==
    [it |-> it, chunk |-> scheduled_node.chunk,
     microbatch |-> scheduled_node.microbatch, branch |-> branch,
     before |-> before, ran |-> ran]

\* TrainingIteration.schedule_w on the queue q and the flags cr.
schedule_w_chunks(conf, q, cr, scheduled_node, pending, it) ==
    LET chunk == scheduled_node.chunk
    IN IF conf.forward_only
       THEN [queue |-> q, w_clear_run |-> cr, raised |-> FALSE,
             entry |-> WEntry(it, scheduled_node, "forward_only", q[chunk], <<>>)]
       ELSE IF should_pop(conf, scheduled_node, pending)
       THEN LET r == WeightGradStore_pop(q, <<>>, chunk)
            IN IF r.ok
               THEN [queue |-> r.queue, w_clear_run |-> cr, raised |-> FALSE,
                     entry |-> WEntry(it, scheduled_node, "pop", q[chunk], r.log)]
               ELSE [queue |-> q, w_clear_run |-> cr, raised |-> TRUE,
                     entry |-> WEntry(it, scheduled_node, "raise", q[chunk], <<>>)]
       ELSE IF ~cr[chunk]
       THEN LET r == WeightGradStore_clear(q, <<>>, chunk)
            IN [queue |-> r.queue,
                w_clear_run |-> [cr EXCEPT ![chunk] = TRUE],
                raised |-> ~r.ok,
                entry |-> WEntry(it, scheduled_node, "clear", q[chunk], r.log)]
       ELSE [queue |-> q, w_clear_run |-> cr, raised |-> FALSE,
             entry |-> WEntry(it, scheduled_node, "skip", q[chunk], <<>>)]

\* The unit one B node leaves in the queue: one closure, named by its microbatch.
WUnit(scheduled_node) == <<[id |-> scheduled_node.microbatch, weight |-> "w"]>>

\* run, one turn of its loop on a W node.
RunW ==
    /\ ~wraised
    /\ wit < Len(wconf.schedules)
    /\ wconf.schedules[wit + 1].type = "W"
    /\ LET node == wconf.schedules[wit + 1]
           r == schedule_w_chunks(wconf, wqueue, w_clear_run, node,
                                  non_w_pending(wconf.schedules, wit), wit)
       IN /\ wqueue' = r.queue
          /\ w_clear_run' = r.w_clear_run
          /\ wraised' = r.raised
          /\ wlog' = Append(wlog, r.entry)
    /\ wit' = wit + 1
    /\ UNCHANGED <<wconf, input_tensors, wpops>>

\* run, one turn of its loop on an F node: schedule_f pushes the input of the
\* forward pass, named by its microbatch, unless forward_only.
RunF ==
    /\ ~wraised
    /\ wit < Len(wconf.schedules)
    /\ wconf.schedules[wit + 1].type = "F"
    /\ LET node == wconf.schedules[wit + 1]
       IN input_tensors' =
              IF wconf.forward_only THEN input_tensors
              ELSE [input_tensors EXCEPT
                      ![node.chunk] = SpQueue_push(@, node.microbatch)]
    /\ wit' = wit + 1
    /\ UNCHANGED <<wconf, wqueue, w_clear_run, wlog, wraised, wpops>>

\* run, one turn of its loop on a B node: schedule_b_impl returns at once when
\* forward_only; otherwise it pops the input of the forward pass and flushes
\* the unit of the backward pass.
RunB ==
    /\ ~wraised
    /\ wit < Len(wconf.schedules)
    /\ wconf.schedules[wit + 1].type = "B"
    /\ LET node == wconf.schedules[wit + 1]
           r == SpQueue_pop(input_tensors[node.chunk])
       IN IF wconf.forward_only
          THEN UNCHANGED <<wqueue, input_tensors, wpops, wraised>>
          ELSE /\ input_tensors' = [input_tensors EXCEPT ![node.chunk] = r.q]
               /\ wpops' = Append(wpops, [it |-> wit, chunk |-> node.chunk,
                                          microbatch |-> node.microbatch,
                                          ok |-> r.ok, ret |-> r.ret])
               /\ wraised' = ~r.ok
               /\ wqueue' = IF r.ok
                            THEN [wqueue EXCEPT ![node.chunk] = Append(@, WUnit(node))]
                            ELSE wqueue
    /\ wit' = wit + 1
    /\ UNCHANGED <<wconf, w_clear_run, wlog>>

\* run, one turn of its loop on any other node.
RunOther ==
    /\ ~wraised
    /\ wit < Len(wconf.schedules)
    /\ wconf.schedules[wit + 1].type \notin {"F", "B", "W"}
    /\ wit' = wit + 1
    /\ UNCHANGED <<wconf, wqueue, w_clear_run, wlog, wraised, input_tensors, wpops>>

(***************************************************************************)
(* ======  The schedule cache of the forward-backward function  ========== *)
(*                                                                         *)
(* One process: get_zero_bubble_forward_backward_func is called to get the *)
(* function of a step and runs wrapped_auto_schedule_forward_backward_func;*)
(* the function it returns runs iterations with the cached schedule, and   *)
(* the end of a training iteration concludes the profiling when the        *)
(* iteration counter reaches zero_bubble_pipeline_timers_end_iter.         *)
(***************************************************************************)
VARIABLES
    cached_schedule,    \* the global schedule_cache of the process
    is_auto_schedule,   \* the global is_auto_schedule
    concluded,          \* ScheduleTimers.concluded
    iter_counter,       \* ScheduleTimers.iter_counter
    timers_end_iter,    \* args.zero_bubble_pipeline_timers_end_iter
    conclusion,         \* what ScheduleTimers.joint_conclusion() returns
    invocations         \* observation: one entry per call of the wrapper

wrapVars == <<cached_schedule, is_auto_schedule, concluded, iter_counter,
              timers_end_iter, conclusion, invocations>>

\* Bounds of the schedule-cache model.
MaxInvocations == 4
MaxIterations == 3

\* The statistics the profiling may conclude with: (f, b, w, c).
Conclusions == {<<1000, 1000, 1000, 1>>, <<900, 1800, 700, 3>>}

\* estimate_free_memory_on_this_rank(old_schedule): a figure computed from
\* the nodes of the schedule in use.
estimate_free_memory_on_this_rank(old_schedule) == 50 + old_schedule.f \div 100

\* update_schedule on a world that is one pipeline group: the schedule the
\* scheduler makes of the arguments, the same on every rank.
update_schedule_result(f, b, w, c, mem_limit) ==
    [f |-> f, b |-> b, w |-> w, c |-> Max2(c, 1), mem_limit |-> mem_limit]

\* The wrapper with the rebuilt schedule never marked as auto-scheduled.
wrapped_auto_schedule_unmarked(cached, auto, done, stats) ==
    LET filled == IF cached.none
                 THEN [cache |-> Obj(update_schedule_result(1000, 1000, 1000, 1, 0)),
                       updates |-> <<"fixed">>]
                 ELSE [cache |-> cached, updates |-> <<>>]
    IN IF done /\ ~auto
       THEN [cache |-> Obj(update_schedule_result(stats[1], stats[2], stats[3], stats[4],
                               estimate_free_memory_on_this_rank(filled.cache.value))),
             auto |-> auto,
             updates |-> Append(filled.updates, "profiled")]
       ELSE [cache |-> filled.cache, auto |-> auto, updates |-> filled.updates]

\* wrapped_auto_schedule_forward_backward_func up to the return of
\* wrap_schedule: the cache, the flag and the update_schedule calls made.
wrapped_auto_schedule_forward_backward_func(cached, auto, done, stats) ==
    LET filled == IF cached.none
                 THEN [cache |-> Obj(update_schedule_result(1000, 1000, 1000, 1, 0)),
                       updates |-> <<"fixed">>]
                 ELSE [cache |-> cached, updates |-> <<>>]
    IN IF done /\ ~auto
       THEN [cache |-> Obj(update_schedule_result(stats[1], stats[2], stats[3], stats[4],
                               estimate_free_memory_on_this_rank(filled.cache.value))),
             auto |-> TRUE,
             updates |-> Append(filled.updates, "profiled")]
       ELSE [cache |-> filled.cache, auto |-> auto, updates |-> filled.updates]

WrapStart(end_iter, stats) ==
    /\ cached_schedule = NoneObj
    /\ is_auto_schedule = FALSE
    /\ concluded = FALSE
    /\ iter_counter = 0
    /\ timers_end_iter = end_iter
    /\ conclusion = stats
    /\ invocations = <<>>

InitWrap ==
    \E end_iter \in 1..(MaxIterations + 1), stats \in Conclusions :
        WrapStart(end_iter, stats)

IdleWrap == WrapStart(1, <<1000, 1000, 1000, 1>>)

\* get_zero_bubble_forward_backward_func: one call of the wrapper.
GetForwardBackwardFunc ==
    /\ Len(invocations) < MaxInvocations
    /\ \E r \in {wrapped_auto_schedule_forward_backward_func(
                     cached_schedule, is_auto_schedule, concluded, conclusion)} :
          /\ cached_schedule' = r.cache
          /\ is_auto_schedule' = r.auto
          /\ invocations' = Append(invocations,
                 [before |-> cached_schedule, concluded |-> concluded,
                  was_auto |-> is_auto_schedule, updates |-> r.updates,
                  after |-> r.cache])
    /\ UNCHANGED <<concluded, iter_counter, timers_end_iter, conclusion>>

\* wrap_schedule(**kwargs): an iteration with the cached schedule; a training
\* iteration counts, and concludes the profiling at timers_end_iter.
WrapSchedule(forward_only) ==
    /\ ~cached_schedule.none
    /\ iter_counter < MaxIterations
    /\ iter_counter' = IF forward_only THEN iter_counter ELSE iter_counter + 1
    /\ concluded' = IF ~forward_only /\ timers_end_iter = iter_counter + 1
                    THEN TRUE ELSE concluded
    /\ UNCHANGED <<cached_schedule, is_auto_schedule, timers_end_iter,
                   conclusion, invocations>>

(***************************************************************************)
(* The specifications                                                      *)
(***************************************************************************)
vars == <<wgsVars, storeVars, zbvVars, rtVars, spqVars, poolVars, packVars,
    updVars, partialVars, valVars, repeatVars, keyVars, wVars, wrapVars>>

\* The variables of the components other than the one a specification runs.
notWGS == <<storeVars, zbvVars, rtVars, spqVars, poolVars, packVars, updVars,
    partialVars, valVars, repeatVars, keyVars, wVars, wrapVars>>
notStore == <<wgsVars, zbvVars, rtVars, spqVars, poolVars, packVars, updVars,
    partialVars, valVars, repeatVars, keyVars, wVars, wrapVars>>
notZbv == <<wgsVars, storeVars, rtVars, spqVars, poolVars, packVars, updVars,
    partialVars, valVars, repeatVars, keyVars, wVars, wrapVars>>
notRuntime == <<wgsVars, storeVars, zbvVars, spqVars, poolVars, packVars,
    updVars, partialVars, valVars, repeatVars, keyVars, wVars, wrapVars>>
notSpQueue == <<wgsVars, storeVars, zbvVars, rtVars, poolVars, packVars,
    updVars, partialVars, valVars, repeatVars, keyVars, wVars, wrapVars>>
notPool == <<wgsVars, storeVars, zbvVars, rtVars, spqVars, packVars, updVars,
    partialVars, valVars, repeatVars, keyVars, wVars, wrapVars>>
notPack == <<wgsVars, storeVars, zbvVars, rtVars, spqVars, poolVars, updVars,
    partialVars, valVars, repeatVars, keyVars, wVars, wrapVars>>
notUpd == <<wgsVars, storeVars, zbvVars, rtVars, spqVars, poolVars, packVars,
    partialVars, valVars, repeatVars, keyVars, wVars, wrapVars>>
notPartial == <<wgsVars, storeVars, zbvVars, rtVars, spqVars, poolVars,
    packVars, updVars, valVars, repeatVars, keyVars, wVars, wrapVars>>
notVal == <<wgsVars, storeVars, zbvVars, rtVars, spqVars, poolVars, packVars,
    updVars, partialVars, repeatVars, keyVars, wVars, wrapVars>>
notRepeat == <<wgsVars, storeVars, zbvVars, rtVars, spqVars, poolVars,
    packVars, updVars, partialVars, valVars, keyVars, wVars, wrapVars>>
notKey == <<wgsVars, storeVars, zbvVars, rtVars, spqVars, poolVars, packVars,
    updVars, partialVars, valVars, repeatVars, wVars, wrapVars>>
notW == <<wgsVars, storeVars, zbvVars, rtVars, spqVars, poolVars, packVars,
    updVars, partialVars, valVars, repeatVars, keyVars, wrapVars>>
notWrap == <<wgsVars, storeVars, zbvVars, rtVars, spqVars, poolVars,
    packVars, updVars, partialVars, valVars, repeatVars, keyVars, wVars>>

NextWGS ==
    \/ enable_split_bw /\ UNCHANGED notWGS
    \/ disable_split_bw /\ UNCHANGED notWGS
    \/ \E w \in Weights : WeightGradStore_put(w) /\ UNCHANGED notWGS
    \/ \E c \in Chunks : WeightGradStore_flush(c) /\ UNCHANGED notWGS
    \/ \E c \in Chunks : Pop(c) /\ UNCHANGED notWGS
    \/ \E c \in Chunks : Clear(c) /\ UNCHANGED notWGS

\* The weight-gradient store alone: the other components stay as constructed.
InitSpecWGS == InitWGS /\ IdleStore /\ IdleZbv /\ IdleRuntime /\
    IdleSpQueue /\ IdlePool /\ IdlePack /\ IdleUpd /\ IdlePartial /\
    IdleVal /\ IdleRepeat /\ IdleKey /\ IdleW /\ IdleWrap

SpecWGS == InitSpecWGS /\ [][NextWGS]_vars

NextStore ==
    \/ \E a \in ArmChoices : recompute_tensor(a) /\ UNCHANGED notStore
    \/ \E t \in TensorPool : SaveHook(Acc(t)) /\ UNCHANGED notStore
    \/ \E junk \in Junk : Offload(junk) /\ UNCHANGED notStore
    \/ OffloadRelease /\ UNCHANGED notStore
    \/ PrepareResume /\ UNCHANGED notStore
    \/ Resume /\ UNCHANGED notStore
    \/ \E i \in 1..Len(handles) : ResumeHook(i) /\ UNCHANGED notStore
    \/ ResumeRelease /\ UNCHANGED notStore
    \/ ResetState /\ UNCHANGED notStore

\* The activation store alone.
InitSpecStore == InitStore /\ IdleWGS /\ IdleZbv /\ IdleRuntime /\
    IdleSpQueue /\ IdlePool /\ IdlePack /\ IdleUpd /\ IdlePartial /\
    IdleVal /\ IdleRepeat /\ IdleKey /\ IdleW /\ IdleWrap

SpecStore == InitSpecStore /\ [][NextStore]_vars

NextZbv ==
    \/ create_schedule_try /\ UNCHANGED notZbv
    \/ create_schedule_return /\ UNCHANGED notZbv

\* The V-schedule construction alone.
InitSpecZbv == InitZbv /\ IdleWGS /\ IdleStore /\ IdleRuntime /\
    IdleSpQueue /\ IdlePool /\ IdlePack /\ IdleUpd /\ IdlePartial /\
    IdleVal /\ IdleRepeat /\ IdleKey /\ IdleW /\ IdleWrap

SpecZbv == InitSpecZbv /\ [][NextZbv]_vars

NextRuntime ==
    \/ \E kwargs \in Kwargs : SchedNodeRuntime_run(kwargs) /\ UNCHANGED notRuntime
    \/ \E kwargs \in Kwargs : SchedNodeRuntime_post_validate(kwargs) /\ UNCHANGED notRuntime

\* The runtime facade and its iterations alone.
InitSpecRuntime == InitRuntime /\ IdleWGS /\ IdleStore /\ IdleZbv /\
    IdleSpQueue /\ IdlePool /\ IdlePack /\ IdleUpd /\ IdlePartial /\
    IdleVal /\ IdleRepeat /\ IdleKey /\ IdleW /\ IdleWrap

SpecRuntime == InitSpecRuntime /\ [][NextRuntime]_vars

NextSpQueue ==
    \/ Push /\ UNCHANGED notSpQueue
    \/ SpPop /\ UNCHANGED notSpQueue

\* One SpQueue alone.
InitSpecSpQueue == InitSpQueue /\ IdleWGS /\ IdleStore /\ IdleZbv /\
    IdleRuntime /\ IdlePool /\ IdlePack /\ IdleUpd /\ IdlePartial /\
    IdleVal /\ IdleRepeat /\ IdleKey /\ IdleW /\ IdleWrap

NextPool ==
    \/ GetForSave /\ UNCHANGED notPool
    \/ GetForResume /\ UNCHANGED notPool
    \/ (\E id \in 1..Len(objs) : Release(id)) /\ UNCHANGED notPool
    \/ IsEmpty /\ UNCHANGED notPool
    \/ (\E id \in 1..Len(objs) : UseStore(id)) /\ UNCHANGED notPool

InitSpecPool == InitPool /\ IdleWGS /\ IdleStore /\ IdleZbv /\ IdleRuntime /\
    IdleSpQueue /\ IdlePack /\ IdleUpd /\ IdlePartial /\ IdleVal /\
    IdleRepeat /\ IdleKey /\ IdleW /\ IdleWrap

\* The pool under callers that release only what get_for_resume gave them.
NextPoolCallers ==
    \/ GetForSave /\ UNCHANGED notPool
    \/ GetForResume /\ UNCHANGED notPool
    \/ (\E id \in 1..Len(objs) : ReleaseHanded(id)) /\ UNCHANGED notPool
    \/ (\E id \in 1..Len(objs) : UseStore(id)) /\ UNCHANGED notPool

SpecPoolCallers == InitSpecPool /\ [][NextPoolCallers]_vars

NextPack ==
    \/ (\E d \in DOMAIN Numels : \E n \in Numels[d] : RecordSlot(n, d))
          /\ UNCHANGED notPack
    \/ AllocateCpuBuffers /\ UNCHANGED notPack

InitSpecPack == InitPack /\ IdleWGS /\ IdleStore /\ IdleZbv /\ IdleRuntime /\
    IdleSpQueue /\ IdlePool /\ IdleUpd /\ IdlePartial /\ IdleVal /\
    IdleRepeat /\ IdleKey /\ IdleW /\ IdleWrap

NextUpd ==
    \/ (\E rank \in Ranks : GatherArguments(rank)) /\ UNCHANGED notUpd
    \/ (\E rank \in Ranks : GatherResult(rank)) /\ UNCHANGED notUpd
    \/ (\E rank \in Ranks : Return(rank)) /\ UNCHANGED notUpd

InitSpecUpd == InitUpd /\ IdleWGS /\ IdleStore /\ IdleZbv /\ IdleRuntime /\
    IdleSpQueue /\ IdlePool /\ IdlePack /\ IdlePartial /\ IdleVal /\
    IdleRepeat /\ IdleKey /\ IdleW /\ IdleWrap

NextPartial ==
    \/ (\E a \in Requests : RecomputeTensor(a)) /\ UNCHANGED notPartial
    \/ (\E t \in SavedTensors : PartialSave(t)) /\ UNCHANGED notPartial

InitSpecPartial == InitPartial /\ IdleWGS /\ IdleStore /\ IdleZbv /\
    IdleRuntime /\ IdleSpQueue /\ IdlePool /\ IdlePack /\ IdleUpd /\
    IdleVal /\ IdleRepeat /\ IdleKey /\ IdleW /\ IdleWrap

NextVal ==
    \/ ValidateArguments /\ UNCHANGED notVal

InitSpecVal == InitVal /\ IdleWGS /\ IdleStore /\ IdleZbv /\ IdleRuntime /\
    IdleSpQueue /\ IdlePool /\ IdlePack /\ IdleUpd /\ IdlePartial /\
    IdleRepeat /\ IdleKey /\ IdleW /\ IdleWrap

SpecVal == InitSpecVal /\ [][NextVal]_vars

SpecPartial == InitSpecPartial /\ [][NextPartial]_vars

SpecUpd == InitSpecUpd /\ [][NextUpd]_vars

SpecPack == InitSpecPack /\ [][NextPack]_vars

SpecPool == InitSpecPool /\ [][NextPool]_vars

SpecSpQueue == InitSpecSpQueue /\ [][NextSpQueue]_vars

\* create_schedule called repeatedly on graphs of one shape.
NextRepeat ==
    \/ (\E costs \in RepeatCosts : CreateSchedule(costs)) /\ UNCHANGED notRepeat

InitSpecRepeat == InitRepeat /\ IdleWGS /\ IdleStore /\ IdleZbv /\
    IdleRuntime /\ IdleSpQueue /\ IdlePool /\ IdlePack /\ IdleUpd /\
    IdlePartial /\ IdleVal /\ IdleKey /\ IdleW /\ IdleWrap

SpecRepeat == InitSpecRepeat /\ [][NextRepeat]_vars

\* get_prev_key on one node.
NextKey ==
    \/ GetPrevKey /\ UNCHANGED notKey

InitSpecKey == InitKey /\ IdleWGS /\ IdleStore /\ IdleZbv /\ IdleRuntime /\
    IdleSpQueue /\ IdlePool /\ IdlePack /\ IdleUpd /\ IdlePartial /\
    IdleVal /\ IdleRepeat /\ IdleW /\ IdleWrap

SpecKey == InitSpecKey /\ [][NextKey]_vars

\* run walking one rank's schedule.
NextW ==
    \/ RunW /\ UNCHANGED notW
    \/ RunF /\ UNCHANGED notW
    \/ RunB /\ UNCHANGED notW
    \/ RunOther /\ UNCHANGED notW

InitSpecW == InitW /\ IdleWGS /\ IdleStore /\ IdleZbv /\ IdleRuntime /\
    IdleSpQueue /\ IdlePool /\ IdlePack /\ IdleUpd /\ IdlePartial /\
    IdleVal /\ IdleRepeat /\ IdleKey /\ IdleWrap

SpecW == InitSpecW /\ [][NextW]_vars

\* The wrapper and the iterations it hands out, in any order.
NextWrap ==
    \/ GetForwardBackwardFunc /\ UNCHANGED notWrap
    \/ (\E forward_only \in BOOLEAN : WrapSchedule(forward_only)) /\ UNCHANGED notWrap

InitSpecWrap == InitWrap /\ IdleWGS /\ IdleStore /\ IdleZbv /\ IdleRuntime /\
    IdleSpQueue /\ IdlePool /\ IdlePack /\ IdleUpd /\ IdlePartial /\
    IdleVal /\ IdleRepeat /\ IdleKey /\ IdleW

SpecWrap == InitSpecWrap /\ [][NextWrap]_vars

(***************************************************************************)
(* Claims about ActivationStore                                            *)
(***************************************************************************)
\* The successor of a state on the ring.
RingNext(st) ==
    CASE st = State_NEW -> State_SAVING
      [] st = State_SAVING -> State_OFFLOADED
      [] st = State_OFFLOADED -> State_OFFLOAD_RELEASED
      [] st = State_OFFLOAD_RELEASED -> State_RESUME_PREPARED
      [] st = State_RESUME_PREPARED -> State_RESUMED
      [] st = State_RESUMED -> State_RESUME_RELEASED
      [] st = State_RESUME_RELEASED -> State_NEW

\* A call accepted only in the states of from: made in another state it
\* raises and leaves the store as it was; it returns only from those states.
AcceptedOnlyIn(from) ==
    /\ store._state \notin from => (~sres'.ok /\ store' = store)
    /\ sres'.ok => store._state \in from

\* C4: the state of a store only moves along NEW -> SAVING -> OFFLOADED ->
\* OFFLOAD_RELEASED -> RESUME_PREPARED -> RESUMED -> RESUME_RELEASED -> NEW;
\* every call is accepted only in its own state(s) of the ring, and a call
\* made in any other state raises and leaves the state unchanged.
C4_StateRing ==
    [][ /\ store'._state # store._state => store'._state = RingNext(store._state)
        /\ \A t \in TensorPool :
              SaveHook(Acc(t)) => AcceptedOnlyIn({State_NEW, State_SAVING})
        /\ \A junk \in Junk : Offload(junk) => AcceptedOnlyIn({State_SAVING})
        /\ OffloadRelease => AcceptedOnlyIn({State_OFFLOADED})
        /\ PrepareResume => AcceptedOnlyIn({State_OFFLOAD_RELEASED})
        /\ Resume => AcceptedOnlyIn({State_RESUME_PREPARED})
        /\ \A i \in 1..Len(handles) :
              ResumeHook(i) => AcceptedOnlyIn({State_RESUMED})
        /\ ResumeRelease => AcceptedOnlyIn({State_RESUMED})
        /\ ResetState => AcceptedOnlyIn({State_RESUME_RELEASED}) ]_vars

\* A store that went once round the ring is NEW again and a call other than
\* the save hook has just been refused there.
C4_Witness ==
    /\ cycle = 1
    /\ store._state = State_NEW
    /\ ~sres.ok
    /\ ~partial.armed

\* Every slot recorded for offload is laid out contiguously.
DenseSlots ==
    \A i \in 1..Len(store._offload_tensor_info) :
        size_of_tensor(store._offload_tensor_info[i].shape,
                       store._offload_tensor_info[i].stride).ok

\* What a run of full legal cycles promises at every point of the run.
FullCycleHolds ==
    /\ sres.ok
    /\ sres.op = "reset_state" =>
          /\ store._state = State_NEW
          /\ store._gpu_store = <<>>
          /\ ~store._offloaded
    /\ cycle > 0 =>
          \A i \in 1..Len(handles) : handles[i].handle = first[i].handle

\* C5 as stated: every call of a full legal cycle succeeds, the cycle leaves
\* the store NEW with an empty tensor list and not offloaded, and an
\* identical second cycle is accepted as the first was.
C5_FullCycle == legal => FullCycleHolds

\* C5, amended: the same, for cycles in which every tensor the store records
\* for offload is laid out contiguously.
C5_FullCycleDense == (legal /\ DenseSlots) => FullCycleHolds

\* Two full legal cycles with an offloaded tensor have been completed.
C5_Witness ==
    /\ legal
    /\ cycle = 2
    /\ sres.op = "reset_state"
    /\ Len(store._offload_tensor_info) > 0
    /\ DenseSlots

\* C6: in a legal cycle the resume hook returns, for every handle, a tensor
\* with the elements of the tensor saved; a handle saved as ALIAS resumes to
\* a view of the accelerator buffer location of the slot it aliases.
C6_RoundTrip ==
    (legal /\ sres.op = "resume_hook") =>
        LET e == handles[sres.arg]
            h == e.handle
        IN /\ ~sres.ret.none
           /\ sres.ret.elems = e.elems
           /\ sres.ret.from = e.from
           /\ h.type = "ALIAS" =>
                 sres.ret.loc = <<BufPtr(store._offload_tensor_info[h.index].dtype,
                                         store.index_offset[h.index].bin),
                                  store.index_offset[h.index].offset>>

(***************************************************************************)
(* Claims about WeightGradStore                                            *)
(***************************************************************************)
ClosureIds(unit) == [i \in 1..Len(unit) |-> unit[i].id]

RECURSIVE NonEmptyUnits(_)
NonEmptyUnits(q) ==
    IF q = <<>> THEN <<>>
    ELSE (IF Len(Head(q)) > 0 THEN <<Head(q)>> ELSE <<>>) \o NonEmptyUnits(Tail(q))

\* The units of a queue agree in shape: after the first non-empty unit every
\* unit has that unit's length and, at each position, that unit's weight.
SameShape(q) ==
    \A j \in 1..Len(q) : \A k \in 1..Len(q) :
        (j < k /\ Len(q[j]) > 0) =>
            /\ Len(q[k]) = Len(q[j])
            /\ \A i \in 1..Len(q[j]) : q[k][i].weight = q[j][i].weight

\* Ids of the closures of a queue ordered by position first, unit second.
PositionMajor(q) ==
    LET ne == NonEmptyUnits(q)
        nu == Len(ne)
        np == IF nu = 0 THEN 0 ELSE Len(ne[1])
    IN [k \in 1..(nu * np) |-> ne[((k - 1) % nu) + 1][((k - 1) \div nu) + 1].id]

\* C9 (as stated): every clear(chunk) runs every closure queued for the chunk
\* and leaves the chunk's queue empty.
C9_ClearRunsEverything ==
    [][wres'.op = "clear" =>
         LET c == wres'.chunk
             q == weight_grad_queue[c]
         IN /\ wres'.ok
            /\ weight_grad_queue'[c] = <<>>
            /\ Len(executed') = Len(executed) + SumSeq([j \in 1..Len(q) |-> Len(q[j])])]_vars

\* C9 (amended): when the queued units of the chunk agree in shape (same
\* length and same weight per position after the first non-empty unit),
\* clear(chunk) runs every queued closure, position by position and within
\* a position in the order the units were enqueued, and empties the chunk's
\* queue, leaving the other chunk's queue and the cache alone.
C9_ClearPositionMajor ==
    [][wres'.op = "clear" =>
         LET c == wres'.chunk
             q == weight_grad_queue[c]
         IN SameShape(q) =>
              /\ wres'.ok
              /\ weight_grad_queue' = [weight_grad_queue EXCEPT ![c] = <<>>]
              /\ cache' = cache
              /\ executed' = executed \o PositionMajor(q)]_vars

\* Witness of C9: a clear has just replayed two units [A, B], [A, B] as
\* A(u1), A(u2), B(u1), B(u2).
C9_Witness ==
    /\ wres.op = "clear" /\ wres.ok
    /\ weight_grad_queue[wres.chunk] = <<>>
    /\ executed = <<1, 3, 2, 4>>

\* C10: pop(chunk) removes exactly the oldest unit of the chunk and runs its
\* closures once each in put order; on an empty queue it raises and leaves
\* the cache, both queues and the executed closures unchanged.
C10_PopOldestOrError ==
    [][wres'.op = "pop" =>
         LET c == wres'.chunk
             q == weight_grad_queue[c]
         IN IF q = <<>>
            THEN /\ ~wres'.ok
                 /\ cache' = cache
                 /\ weight_grad_queue' = weight_grad_queue
                 /\ executed' = executed
            ELSE /\ wres'.ok
                 /\ cache' = cache
                 /\ weight_grad_queue' = [weight_grad_queue EXCEPT ![c] = Tail(q)]
                 /\ executed' = executed \o ClosureIds(q[1])]_vars

\* Witness of C10: a pop has run the two closures of the oldest unit while a
\* younger unit of the same chunk is still queued.
C10_Witness ==
    /\ wres.op = "pop" /\ wres.ok
    /\ executed = <<1, 2>>
    /\ Len(weight_grad_queue[wres.chunk]) = 1
    /\ Len(weight_grad_queue[wres.chunk][1]) > 0

(***************************************************************************)
(* Claims about PipelineGraph                                              *)
(***************************************************************************)
\* The positions of the nodes of one type and chunk in a stage's order.
NodesOf(order, type, chunk) ==
    {k \in 1..Len(order) : order[k].type = type /\ order[k].chunk = chunk}

ExactCounts(g, lo) ==
    \A stage \in 0..(g.n_stage - 1) :
        /\ Len(lo[stage]) = 6 * g.n_micro
        /\ \A type \in {"F", "B", "W"}, chunk \in {0, 1} :
              LET ks == NodesOf(lo[stage], type, chunk)
              IN /\ Cardinality(ks) = g.n_micro
                 /\ {lo[stage][k].microbatch : k \in ks} = 0..(g.n_micro - 1)

\* C2: for n_stages >= 2, n_micro >= 1 and positive costs create_schedule
\* returns, and on every stage its result has exactly n_micro nodes of each
\* of F, B, W for each of the two chunks (6 * n_micro nodes in all), the
\* microbatches 0..n_micro-1 appearing once each per (stage, type, chunk).
C2_ExactCounts ==
    /\ zres # "raised"
    /\ zres = "returned" => ExactCounts(graph, local_order)

C2_Witness ==
    /\ zres = "returned"
    /\ graph.n_stage = 3 /\ graph.n_micro = 2
    /\ Len(local_order[2]) = 12
    /\ local_order[0][1] = [type |-> "F", chunk |-> 0, stage |-> 0, microbatch |-> 0,
                             layer_group_idx |-> 0]

\* Completion time of the k-th node of a stage in a try_v_schedule result.
Completion(g, sched, et, stage, k) ==
    et[get_id(g, sched[stage][k][1], sched[stage][k][2], stage, sched[stage][k][3])]

\* Start time of that node: completion minus the cost of its type.
Start(g, sched, et, stage, k) ==
    Completion(g, sched, et, stage, k) - g.fbw_cost[sched[stage][k][1] + 1]

NoOverlap(g, sched, et) ==
    \A stage \in 0..(g.n_stage - 1) :
        \A k \in 2..Len(sched[stage]) :
            /\ Completion(g, sched, et, stage, k) >= Completion(g, sched, et, stage, k - 1)
            /\ Start(g, sched, et, stage, k) >= Completion(g, sched, et, stage, k - 1)

\* C3: in what try_v_schedule returns, and so in what create_schedule keeps,
\* the completion times along each stage's order never decrease and every
\* node starts (completion minus cost) no earlier than the completion of the
\* node placed just before it on the stage.
C3_NoOverlap ==
    (tries > 0 /\ zres # "raised") =>
        /\ NoOverlap(graph, tried.schedule, tried.end_time)
        /\ NoOverlap(graph, schedule, end_time)

\* A kept schedule in which some node waits for its dependency.
C3_Witness ==
    /\ zres = "returned"
    /\ max_bubble > 0
    /\ \E stage \in 0..(graph.n_stage - 1) :
          \E k \in 2..Len(schedule[stage]) :
              Start(graph, schedule, end_time, stage, k)
                  > Completion(graph, schedule, end_time, stage, k - 1)

(***************************************************************************)
(* Claims about TrainingIteration and SchedNodeRuntime                     *)
(***************************************************************************)
\* The events of a call that stand for the loop reaching a schedule node.
WalkEvents == {"ignore", "add", "drop", "F", "B", "BW", "W", "unknown", "unexpected",
               "recv_post_validation", "send_post_validation", "post_validation"}

\* The cursors a call's loop reached, in order.
RECURSIVE Walk(_)
Walk(evs) ==
    IF evs = <<>> THEN <<>>
    ELSE (IF Head(evs).ev \in WalkEvents THEN <<Head(evs).it>> ELSE <<>>) \o Walk(Tail(evs))

\* The batches the F nodes of a call consumed, in order.
RECURSIVE FBatches(_)
FBatches(evs) ==
    IF evs = <<>> THEN <<>>
    ELSE (IF Head(evs).ev = "F" /\ Head(evs).batch >= 0 THEN <<Head(evs).batch>> ELSE <<>>)
             \o FBatches(Tail(evs))

\* The microbatches of the F nodes a call ran, in order.
RECURSIVE FMicrobatches(_, _)
FMicrobatches(sch, evs) ==
    IF evs = <<>> THEN <<>>
    ELSE (IF Head(evs).ev = "F" /\ Head(evs).batch >= 0
          THEN <<sch[Head(evs).it + 1].microbatch>> ELSE <<>>)
             \o FMicrobatches(sch, Tail(evs))

IsPrefix(s, t) == Len(s) <= Len(t) /\ \A k \in 1..Len(s) : s[k] = t[k]

\* The walk visits it0, it0 + 1, ... without a gap.
InArrayOrder(evs, it0) ==
    LET w == Walk(evs) IN \A k \in 1..Len(w) : w[k] = it0 + k - 1

\* Node j has been issued by a flush before position p of the record.
IssuedBefore(evs, p, j) ==
    \E q \in 1..(p - 1) :
        evs[q].ev = "issue" /\ \E k \in 1..Len(evs[q].nodes) : evs[q].nodes[k] = j

\* Node j was dropped, unissued, before position p of the record.
DroppedBefore(evs, p, j) == \E q \in 1..(p - 1) : evs[q].ev = "drop" /\ evs[q].it = j

\* The communication nodes the walk met before it reached cursor it.
CommBefore(sch, it0, it) ==
    {j \in it0..(it - 1) : sch[j + 1].type \in AUTO_SCHEDULE_COMMUNICATION_TYPES}

\* The last call was a run() that got as far as running an iteration.
RanRun == rres.op = "run" /\ rres.it0 >= 0

\* The positions of the record at which the claim looks: a computation node
\* F, B, BW or W is dispatched, or run() returns.
CheckPoints == {p \in 1..Len(log) : log[p].ev \in {"F", "B", "BW", "W", "return"}}

RunInOrder ==
    /\ InArrayOrder(log, rres.it0)
    /\ rres.ok => /\ Len(Walk(log)) = Len(schedules) - rres.it0
                  /\ curr_iteration.states.it = Len(schedules)

\* C1 as stated: run() walks the schedule in array order from the
\* checkpointed cursor up to its end, and whenever F, B, BW or W is
\* dispatched, and when run() returns, the four pending batches are empty and
\* every communication node met earlier in the walk has been issued.
C1_RunOrder ==
    RanRun =>
        /\ RunInOrder
        /\ \A p \in CheckPoints :
              /\ log[p].pending = 0
              /\ \A j \in CommBefore(schedules, rres.it0, log[p].it) :
                    IssuedBefore(log, p, j)

\* C1, amended: ... every communication node met earlier in the walk has
\* been issued, or, in a forward-only run, is a backward communication node
\* that was dropped without ever being put in a batch.
C1_RunOrderForwardOnly ==
    RanRun =>
        /\ RunInOrder
        /\ \A p \in CheckPoints :
              /\ log[p].pending = 0
              /\ \A j \in CommBefore(schedules, rres.it0, log[p].it) :
                    \/ IssuedBefore(log, p, j)
                    \/ /\ curr_iteration.iteration_config.forward_only
                       /\ is_backward_comm(schedules[j + 1].type)
                       /\ DroppedBefore(log, p, j)

\* A run resumed after a successful post-validation that returned and in
\* which one flush issued several batched nodes.
C1_Witness ==
    /\ RanRun /\ rres.ok
    /\ rres.it0 > 0
    /\ \E p \in 1..Len(log) : log[p].ev = "issue" /\ Len(log[p].nodes) >= 2
    /\ \E p \in 1..Len(log) : log[p].ev = "B"

\* The cursor of the POST_VALIDATION node a call reached, in a set.
Validated(evs) == {evs[p].it : p \in {q \in 1..Len(evs) : evs[q].ev = "post_validation"}}

\* The post_validate call of this step returned.
PostValidated == ncalls' = ncalls + 1 /\ rres'.op = "post_validate" /\ rres'.ok

\* C7: when run_until_post_validation returns after the optimizer reported
\* failure, the iteration has fresh States and Buffers with cursor 0 and the
\* data iterator replays what it had buffered (the batches of this attempt
\* when the step was run), and the run() that follows walks the schedule
\* from its first node with the same batches; when the optimizer reported
\* success the cursor is that of the POST_VALIDATION node, the buffers hold
\* what the forward passes left in flight and the buffered batch is gone.
C7_PostValidationOutcome ==
    [][/\ (PostValidated /\ Validated(log') # {} /\ ~rres'.kwargs.optimizer.succeed) =>
            /\ next_iteration'.states = States_init
            /\ next_iteration'.buffers = Buffers_init
            /\ data_iterator'.popping
            /\ data_iterator'.buffer =
                  IF rres'.kwargs.optimizer.do_this_step THEN FBatches(log')
                  ELSE data_iterator.buffer
       /\ (PostValidated /\ Validated(log') # {} /\ rres'.kwargs.optimizer.succeed) =>
            /\ Validated(log') = {next_iteration'.states.it}
            /\ schedules[next_iteration'.states.it + 1].type = "POST_VALIDATION"
            /\ next_iteration'.buffers.input_tensors = FMicrobatches(schedules, log')
            /\ data_iterator'.buffer = <<>>
       /\ (/\ rres.op = "post_validate" /\ rres.ok
           /\ Validated(log) # {} /\ ~rres.kwargs.optimizer.succeed
           /\ ncalls' = ncalls + 1 /\ rres'.op = "run" /\ rres'.it0 >= 0) =>
            /\ rres'.it0 = 0
            /\ InArrayOrder(log', 0)
            /\ rres'.ok => Len(Walk(log')) = Len(schedules)
            /\ \/ IsPrefix(FBatches(log), FBatches(log'))
               \/ ~rres'.ok /\ IsPrefix(FBatches(log'), FBatches(log))
      ]_vars

\* A failed post-validation of a step that ran a forward pass, followed by a
\* run() that replayed its batch and went through the whole schedule.
C7_Witness ==
    /\ prev.rres.op = "post_validate" /\ prev.rres.ok
    /\ prev.rres.kwargs.optimizer.do_this_step
    /\ ~prev.rres.kwargs.optimizer.succeed
    /\ FBatches(prev.log) # <<>>
    /\ rres.op = "run" /\ rres.ok /\ ~rres.built
    /\ IsPrefix(FBatches(prev.log), FBatches(log))
    /\ Len(FBatches(log)) > Len(FBatches(prev.log))

\* C8: a call with an optimizer keyword runs post_validate, a call without
\* runs run; run() builds and runs a fresh iteration when there is no current
\* iteration, post-validation is disabled, there is no next iteration or the
\* call is forward-only, and otherwise runs the iteration the last
\* post_validate built, leaving next_iteration None; post_validate resets the
\* current iteration and stores a newly built one as next, on which it runs
\* run_until_post_validation.
C8_FacadeRouting ==
    [][ncalls' = ncalls + 1 =>
        LET kwargs == rres'.kwargs
        IN /\ kwargs.optimizer.given # "absent" => rres'.op = "post_validate"
           /\ kwargs.optimizer.given = "absent" => rres'.op = "run"
           /\ rres'.op = "run" =>
                IF \/ curr_iteration = NoIteration
                   \/ ~enable_optimizer_post_validation
                   \/ next_iteration = NoIteration
                   \/ kwargs.forward_only = "True"
                THEN /\ rres'.built
                     /\ curr_iteration'.iteration_id = iteration_id
                     /\ rres'.it0 = 0
                ELSE /\ ~rres'.built
                     /\ curr_iteration'.iteration_id = next_iteration.iteration_id
                     /\ rres'.it0 = next_iteration.states.it
                     /\ next_iteration' = NoIteration
           /\ rres'.op = "post_validate" =>
                /\ curr_iteration' = reset(curr_iteration)
                /\ next_iteration'.iteration_id = iteration_id
                /\ next_iteration'.iteration_id # curr_iteration'.iteration_id
      ]_vars

(***************************************************************************)
(* WeightGradStore.put and flush                                           *)
(***************************************************************************)
\* C11: put fails its assertion with the cache unchanged whenever splitting is
\* not enabled or not supported; a put that succeeds appends its closure to
\* the cache and touches nothing else; flush(chunk) appends the whole cache,
\* in put order, to the chunk's queue as one unit and leaves the cache empty.
C11_PutFlush ==
    [][/\ wres'.op = "put" =>
            IF ~should_split_bw \/ ~is_supported(args)
            THEN /\ ~wres'.ok
                 /\ cache' = cache
                 /\ weight_grad_queue' = weight_grad_queue
            ELSE /\ wres'.ok
                 /\ Len(cache') = Len(cache) + 1
                 /\ SubSeq(cache', 1, Len(cache)) = cache
                 /\ cache'[Len(cache')].id = nput + 1
                 /\ weight_grad_queue' = weight_grad_queue
                 /\ executed' = executed
                 /\ should_split_bw' = should_split_bw
       /\ wres'.op = "flush" =>
            /\ wres'.ok
            /\ weight_grad_queue' =
                  [weight_grad_queue EXCEPT ![wres'.chunk] = Append(@, cache)]
            /\ cache' = <<>>
            /\ executed' = executed]_vars

\* Witness of C11: a flush has just sealed two closures, in put order, as one
\* unit of chunk 1 and emptied the cache.
C11_Witness ==
    /\ wres.op = "flush" /\ wres.chunk = 1
    /\ cache = <<>>
    /\ weight_grad_queue[0] = <<>>
    /\ Len(weight_grad_queue[1]) = 1
    /\ Len(weight_grad_queue[1][1]) = 2
    /\ weight_grad_queue[1][1][1].id < weight_grad_queue[1][1][2].id

(***************************************************************************)
(* SpQueue                                                                 *)
(***************************************************************************)
\* The tensors of the complete groups pushed so far.
ReadyPushed == spq.num_seq_splits * (npush \div spq.num_seq_splits)

\* The tensor the m-th successful pop of a FIFO of stacks returns: groups in
\* push order, each group from its last pushed tensor to its first.
ExpectedPop(m) ==
    LET n == spq.num_seq_splits
    IN ((m - 1) \div n) * n + n - ((m - 1) % n)

\* C12: SpQueue is a FIFO of stacks.  After s*k pushes and no pop there are k
\* ready groups; the pops return the tensors of the oldest ready group from
\* the most recently pushed to the least recently pushed and then move to
\* the next group; a pop fails exactly when no complete group is ready.
C12_FifoOfStacks ==
    LET n == spq.num_seq_splits
    IN /\ Len(popped) <= ReadyPushed
       /\ \A m \in 1..Len(popped) : popped[m] = ExpectedPop(m)
       /\ Len(spq.ready_queue) = (ReadyPushed - Len(popped) + n - 1) \div n
       /\ Len(spq.tmp_stack) = npush % n
       /\ spres.op = "pop" /\ spres.ok => spres.ret = popped[Len(popped)]
       /\ spres.op = "pop" /\ ~spres.ok => Len(popped) = ReadyPushed

\* Witness of C12: with three splits, six pushes have been popped as
\* 3, 2, 1, 6, 5, 4 and the seventh pop has failed.
C12_Witness ==
    /\ spq.num_seq_splits = 3
    /\ npush = 6
    /\ popped = <<3, 2, 1, 6, 5, 4>>
    /\ spres.op = "pop" /\ ~spres.ok

(***************************************************************************)
(* ActivationStorePool                                                     *)
(***************************************************************************)
\* C13: the i-th get_for_resume returns the store the i-th get_for_save
\* returned; get_for_resume fails when no store is waiting (and only then);
\* is_empty() is true exactly when every store handed out by get_for_save has
\* been handed out by get_for_resume.
C13_PoolFifo ==
    /\ Len(handed) <= Len(saved)
    /\ \A i \in 1..Len(handed) : handed[i] = saved[i]
    /\ pres.op = "get_for_resume" /\ ~pres.ok => Len(handed) = Len(saved)
    /\ pres.op = "get_for_resume" /\ pres.ok => pres.ret = handed[Len(handed)]
    /\ pres.op = "is_empty" => pres.ret = (Len(handed) = Len(saved))
    /\ is_empty(_queue) = (Len(handed) = Len(saved))

\* Witness of C13: store 1 was handed out for save, then store 2, then,
\* after its release, store 1 again; the three were handed out for resume in
\* that order and is_empty() has answered true.
C13_Witness ==
    /\ saved = <<1, 2, 1>>
    /\ handed = <<1, 2, 1>>
    /\ pres.op = "is_empty" /\ pres.ret = TRUE

(***************************************************************************)
(* The packing step                                                        *)
(***************************************************************************)
\* The element count of a recorded slot rounded up to a multiple of 64.
PackedSize(i) ==
    ((Prod(packing._offload_tensor_info[i].shape) + 63) \div 64) * 64

\* The slots of one element type.
SlotsOf(d) ==
    {i \in 1..Len(packing._offload_tensor_info) :
        packing._offload_tensor_info[i].dtype = d}

HostBins(d) == packing._continuous_cpu_buffer[d]

\* C14: the packing step gives every recorded tensor a (bin, offset) with
\* the offset a multiple of 64 and offset plus packed size within the bin's
\* allocated size, the spans of the tensors of one bin are pairwise disjoint,
\* and the packed size of a tensor is its element count rounded up to a
\* multiple of 64.
C14_Packing ==
    /\ packres # "raised"
    /\ packres = "allocated" =>
          /\ Len(packing.index_offset) = Len(packing._offload_tensor_info)
          /\ DOMAIN packing._continuous_cpu_buffer =
                SeenDTypes(packing._offload_tensor_info)
          /\ \A d \in DOMAIN packing._continuous_cpu_buffer :
                \A i \in SlotsOf(d) :
                   LET at == packing.index_offset[i]
                       info == packing._offload_tensor_info[i]
                   IN /\ size_of_tensor(info.shape, info.stride).size = PackedSize(i)
                      /\ at.bin \in 1..Len(HostBins(d))
                      /\ at.offset >= 0
                      /\ at.offset % 64 = 0
                      /\ at.offset + PackedSize(i) <= HostBins(d)[at.bin]
                      /\ packing._index_cpu_buffer[i].off = at.offset
                      /\ packing._index_cpu_buffer[i].bin = at.bin
                      /\ \A j \in SlotsOf(d) \ {i} :
                            packing.index_offset[j].bin = at.bin =>
                               \/ at.offset + PackedSize(i)
                                     <= packing.index_offset[j].offset
                               \/ packing.index_offset[j].offset + PackedSize(j)
                                     <= at.offset

\* Witness of C14: four slots of two element types are packed; two tensors
\* of 100 and 129 elements share a bin, the second one behind the first.
C14_Witness ==
    /\ packres = "allocated"
    /\ Len(packing._offload_tensor_info) = 4
    /\ DOMAIN packing._continuous_cpu_buffer = {"half", "float"}
    /\ \E i, j \in SlotsOf("half") :
          /\ Prod(packing._offload_tensor_info[i].shape) = 129
          /\ Prod(packing._offload_tensor_info[j].shape) = 100
          /\ packing.index_offset[i].bin = packing.index_offset[j].bin
          /\ packing.index_offset[i].offset = 0
          /\ packing.index_offset[j].offset = 192

IsPowerOf2(x) == x > 0 /\ nearest_power_of_2(x) = x

TotalPacked(d) ==
    SumSeq([k \in 1..Len(TypeTensors(packing._offload_tensor_info, d, 1)) |->
               TypeTensors(packing._offload_tensor_info, d, 1)[k].size])

\* The total of the allocated sizes of the bins of one element type.
Capacity(d) == SumSeq(HostBins(d))

\* What the tensors placed in a bin take together.
RECURSIVE Occupied(_, _, _)
Occupied(d, bin, i) ==
    IF i > Len(packing._offload_tensor_info) THEN 0
    ELSE (IF i \in SlotsOf(d) /\ packing.index_offset[i].bin = bin
          THEN PackedSize(i) ELSE 0) + Occupied(d, bin, i + 1)

\* C15 as stated: per element type at most 4 bins, the allocated size of
\* every bin a power of two, total capacity at least the total packed size.
C15_PowerOfTwoBins ==
    packres = "allocated" =>
       \A d \in DOMAIN packing._continuous_cpu_buffer :
          /\ Len(HostBins(d)) <= 4
          /\ \A b \in 1..Len(HostBins(d)) : IsPowerOf2(HostBins(d)[b])
          /\ Capacity(d) >= TotalPacked(d)

\* C15 amended: per element type there are between 1 and 4 bins; the
\* allocated size of a bin is what the tensors placed in it occupy (a
\* positive multiple of 64 no larger than the power of two at or above the
\* total packed size), so the total capacity equals the total packed size.
C15_OccupiedBins ==
    packres = "allocated" =>
       \A d \in DOMAIN packing._continuous_cpu_buffer :
          /\ Len(HostBins(d)) \in 1..max_split
          /\ \A b \in 1..Len(HostBins(d)) :
                /\ HostBins(d)[b] = Occupied(d, b, 1)
                /\ HostBins(d)[b] > 0
                /\ HostBins(d)[b] % 64 = 0
                /\ HostBins(d)[b] <= nearest_power_of_2(TotalPacked(d))
          /\ Capacity(d) = TotalPacked(d)

\* Witness of C15: one element type got two bins, the first of 192 elements,
\* and one element type a single bin of 192 elements; 192 is not a power of
\* two.
C15_Witness ==
    /\ packres = "allocated"
    /\ \E d \in DOMAIN packing._continuous_cpu_buffer :
          /\ Len(HostBins(d)) = 2
          /\ HostBins(d)[1] = 192
          /\ ~IsPowerOf2(HostBins(d)[1])
    /\ \E d \in DOMAIN packing._continuous_cpu_buffer : HostBins(d) = <<192>>

(***************************************************************************)
(* update_schedule                                                         *)
(***************************************************************************)
\* update_schedule has been called on every rank and every call has ended.
AllRanksDone == \A r \in Ranks : upc[r] \in {"returned", "raised"}

\* C16: after update_schedule has been called on all ranks, every rank holds
\* the same cached schedule, the scheduler has been invoked only on the
\* second-to-last pipeline stage, and every other rank has received exactly
\* one non-null result from the result all-gather.
C16_RankConsistent ==
    /\ \A r \in Ranks :
          scheduler_calls[r] > 0 => is_second_last_pipeline_stage(r)
    /\ AllRanksDone =>
          /\ \A r, q \in Ranks : schedule_cache[r] = schedule_cache[q]
          /\ \A r \in Ranks : ~schedule_cache[r].none
          /\ \A r \in Ranks :
                ~is_second_last_pipeline_stage(r) =>
                   upc[r] = "returned" /\ non_null[r] = 1

\* The same for a world that is a single pipeline group.
SingleGroupConsistent == groups = 1 => C16_RankConsistent

\* A world of one pipeline group of three stages where every call has ended.
SingleGroupDone == groups = 1 /\ pp_size = 3 /\ AllRanksDone

(***************************************************************************)
(* PartialRecompute                                                        *)
(***************************************************************************)
\* C17: PartialRecompute holds at most one armed request: _recompute_tensor
\* called while a request is armed fails its assertion and leaves that
\* request armed; called while none is armed it arms its own.
C17_OneArmedRequest ==
    \A k \in 1..Len(hooklog) :
       hooklog[k].op = "_recompute_tensor" =>
          IF hooklog[k].before.armed
          THEN /\ ~hooklog[k].ok
               /\ hooklog[k].after = hooklog[k].before
          ELSE /\ hooklog[k].ok
               /\ hooklog[k].after.armed
               /\ hooklog[k].after.tensor = hooklog[k].arg.tensor
               /\ hooklog[k].after.parents = hooklog[k].arg.parents

\* Witness of C17: a request for T_b is armed, a request for T_a is refused,
\* and the next save of T_b is answered from the first request.
C17_Witness ==
    /\ Len(hooklog) = 3
    /\ hooklog[1].op = "_recompute_tensor" /\ hooklog[1].ok
    /\ hooklog[1].arg.tensor = Acc(T_b)
    /\ hooklog[2].op = "_recompute_tensor" /\ ~hooklog[2].ok
    /\ hooklog[2].arg.tensor = Acc(T_a)
    /\ hooklog[3].op = "_save_tensor" /\ hooklog[3].arg.tensor = Acc(T_b)
    /\ hooklog[3].type = "RECOMPUTE"
    /\ hooklog[3].parents = <<Acc(T_a), Acc(T_p)>>

\* The number of calls of the log that satisfy a condition.
RECURSIVE CountCalls(_, _, _)
CountCalls(op, type, k) ==
    IF k = 0 THEN 0
    ELSE (IF hooklog[k].op = op /\ hooklog[k].ok /\ hooklog[k].type = type
          THEN 1 ELSE 0) + CountCalls(op, type, k - 1)

\* C18: while a request is armed, the save hook on a tensor that is not a
\* view of the armed tensor returns PASS_THROUGH with that tensor and leaves
\* the request armed; a save of a view of the armed tensor returns RECOMPUTE
\* with the armed parents and disarms the request, so that each armed request
\* is consumed by exactly one save.
C18_SaveHook ==
    /\ \A k \in 1..Len(hooklog) :
          hooklog[k].op = "_save_tensor" =>
             IF /\ hooklog[k].before.armed
                /\ is_a_view(hooklog[k].arg.tensor, hooklog[k].before.tensor)
             THEN /\ hooklog[k].type = "RECOMPUTE"
                  /\ hooklog[k].parents = hooklog[k].before.parents
                  /\ hooklog[k].after = NoRecompute
             ELSE /\ hooklog[k].type = "PASS_THROUGH"
                  /\ hooklog[k].tensor = hooklog[k].arg.tensor
                  /\ hooklog[k].after = hooklog[k].before
    /\ CountCalls("_save_tensor", "RECOMPUTE", Len(hooklog))
          + (IF _next_recompute_tensor.armed THEN 1 ELSE 0)
       = CountCalls("_recompute_tensor", "none", Len(hooklog))

\* Witness of C18: with a request for T_a armed, a save of T_b passes
\* through, the save of T_aT (a view of T_a) is answered RECOMPUTE, and a
\* second save of T_aT passes through.
C18_Witness ==
    /\ Len(hooklog) = 4
    /\ hooklog[1].op = "_recompute_tensor" /\ hooklog[1].arg.tensor = Acc(T_a)
    /\ hooklog[2].op = "_save_tensor" /\ hooklog[2].arg.tensor = Acc(T_b)
    /\ hooklog[2].type = "PASS_THROUGH" /\ hooklog[2].after.armed
    /\ hooklog[3].op = "_save_tensor" /\ hooklog[3].arg.tensor = Acc(T_aT)
    /\ hooklog[3].type = "RECOMPUTE" /\ hooklog[3].parents = <<Acc(T_b)>>
    /\ hooklog[4].op = "_save_tensor" /\ hooklog[4].arg.tensor = Acc(T_aT)
    /\ hooklog[4].type = "PASS_THROUGH"
    /\ ~_next_recompute_tensor.armed

(***************************************************************************)
(* validate_arguments                                                      *)
(***************************************************************************)
\* The argument object asks for the V schedule or for 1F1B-V.
AsksForV == given.zero_bubble_v_schedule \/ given.enable_1f1b_v

\* C19: validate_arguments fails when zero_bubble_v_schedule or
\* enable_1f1b_v is set and num_layers is not divisible by
\* transformer_pipeline_model_parallel_size, or the per-stage layer count is
\* odd, or num_layers_per_virtual_pipeline_stage is already set; when such an
\* argument set is accepted, on return virtual_pipeline_model_parallel_size
\* is 2 and num_layers_per_virtual_pipeline_stage is half the per-stage layer
\* count.
C19_VScheduleLayers ==
    /\ vres # "new" /\ AsksForV
          /\ (\/ given.num_layers
                   % given.transformer_pipeline_model_parallel_size # 0
              \/ (given.num_layers
                   \div given.transformer_pipeline_model_parallel_size) % 2 # 0
              \/ given.num_layers_per_virtual_pipeline_stage # NoneInt)
       => vres = "raised"
    /\ vres = "returned" /\ AsksForV
       => /\ vargs.virtual_pipeline_model_parallel_size = 2
          /\ 2 * vargs.num_layers_per_virtual_pipeline_stage
                * given.transformer_pipeline_model_parallel_size
             = given.num_layers

\* Witness of C19: the V schedule with 6 layers on 2 stages is refused, the
\* per-stage count 3 being odd, with the argument object left as it was.
C19_Witness ==
    /\ vres = "raised"
    /\ given.zero_bubble_v_schedule
    /\ given.untie_embeddings_and_output_weights
    /\ ~given.defer_embedding_wgrad_compute
    /\ given.num_layers = 6
    /\ given.transformer_pipeline_model_parallel_size = 2
    /\ given.num_layers_per_virtual_pipeline_stage = NoneInt
    /\ vargs = given

\* C20: validate_arguments fails for every argument set with enable_1f1b_v
\* set together with enable_zero_bubble, or together with
\* enable_optimizer_post_validation, or with pipeline_model_parallel_size
\* at most 1.
C20_OneF1bVExclusions ==
    vres # "new" /\ given.enable_1f1b_v
       /\ (\/ given.enable_zero_bubble
           \/ given.enable_optimizer_post_validation
           \/ given.pipeline_model_parallel_size <= 1)
    => vres = "raised"

\* Witness of C20: 1F1B-V on 2 stages with 4 layers passes the layer checks
\* and is refused only because post validation is enabled.
C20_Witness ==
    /\ vres = "raised"
    /\ given.enable_1f1b_v
    /\ ~given.zero_bubble_v_schedule
    /\ ~given.enable_zero_bubble
    /\ given.enable_optimizer_post_validation
    /\ given.pipeline_model_parallel_size = 2
    /\ given.num_layers = 4
    /\ vargs.virtual_pipeline_model_parallel_size = 2
    /\ vargs.num_layers_per_virtual_pipeline_stage = 1

\* C21: validate_arguments fails for every argument set with
\* enable_zero_bubble set and pipeline_model_parallel_size = 1, and for every
\* argument set with enable_zero_bubble and enable_optimizer_post_validation
\* set but fp16 not set.
C21_ZeroBubbleRequirements ==
    /\ vres # "new" /\ given.enable_zero_bubble
          /\ given.pipeline_model_parallel_size = 1
       => vres = "raised"
    /\ vres # "new" /\ given.enable_zero_bubble
          /\ given.enable_optimizer_post_validation /\ ~given.fp16
       => vres = "raised"

\* Witness of C21: plain zero bubble on a single pipeline stage, with nothing
\* else that an earlier block refuses, is refused.
C21_Witness ==
    /\ vres = "raised"
    /\ given.untie_embeddings_and_output_weights
    /\ ~given.defer_embedding_wgrad_compute
    /\ ~given.zero_bubble_v_schedule /\ ~given.enable_1f1b_v
    /\ given.enable_zero_bubble
    /\ ~given.use_distributed_optimizer
    /\ ~given.enable_optimizer_post_validation
    /\ given.pipeline_model_parallel_size = 1
    /\ vargs = given

\* C22: on every argument set that validate_arguments accepts, on return
\* zero_bubble_v_schedule implies enable_zero_bubble (and so more than one
\* pipeline stage), and enable_zero_bubble being false implies
\* enable_optimizer_post_validation being false.
C22_AcceptedFlags ==
    vres = "returned"
    => /\ vargs.zero_bubble_v_schedule
          => /\ vargs.enable_zero_bubble
             /\ vargs.pipeline_model_parallel_size > 1
       /\ ~vargs.enable_zero_bubble
          => ~vargs.enable_optimizer_post_validation

\* Witness of C22: the V schedule asked for without enable_zero_bubble is
\* accepted with enable_zero_bubble turned on; post validation asked for
\* without zero bubble is accepted with post validation turned off.
C22_Witness ==
    /\ vres = "returned"
    /\ \/ /\ given.zero_bubble_v_schedule /\ ~given.enable_zero_bubble
          /\ vargs.enable_zero_bubble
       \/ /\ ~given.enable_zero_bubble
          /\ given.enable_optimizer_post_validation
          /\ ~vargs.enable_zero_bubble
          /\ ~vargs.enable_optimizer_post_validation

(***************************************************************************)
(* create_schedule called repeatedly                                       *)
(***************************************************************************)
\* C23: create_schedule is deterministic: two calls with identical
\* (n_stage, n_micro, costs, memory parameters, config) return identical
\* per-stage node sequences, whatever calls were made before them.
C23_Deterministic ==
    \A i \in 1..Len(calls), j \in 1..Len(calls) :
        calls[i].graph = calls[j].graph
        => /\ calls[i].ok = calls[j].ok
           /\ calls[i].local_order = calls[j].local_order

\* Witness of C23: a graph is scheduled, then a graph of other costs that
\* gets another order, then the first graph again.
C23_Witness ==
    /\ Len(calls) = 3
    /\ calls[1].graph = calls[3].graph
    /\ calls[2].graph # calls[1].graph
    /\ calls[1].ok /\ calls[2].ok /\ calls[3].ok
    /\ calls[2].local_order # calls[1].local_order
    /\ left.max_bubble > 0

(***************************************************************************)
(* Dependencies in the V schedule                                          *)
(***************************************************************************)
\* A node of create_schedule's result with the dataclass default
\* seq_split_idx = 0.
Defaulted(n) ==
    [type |-> n.type, stage |-> n.stage, microbatch |-> n.microbatch,
     chunk |-> n.chunk, seq_split_idx |-> 0,
     layer_group_idx |-> n.layer_group_idx]

\* The category 0, 1, 2 of a node type F, B, W.
CatOf(type) == CHOOSE c \in 0..2 : FuncTypes[c + 1] = type

\* Completion time of a node of the result, read from end_time at the id the
\* construction gave it.
NodeEnd(g, cfg, et, n) ==
    et[get_id(g, CatOf(n.type),
              IF n.type = "F" THEN n.chunk ELSE cfg.max_chunks - 1 - n.chunk,
              n.stage, n.microbatch)]

NodeStart(g, cfg, et, n) == NodeEnd(g, cfg, et, n) - g.fbw_cost[CatOf(n.type) + 1]

AllNodes(g, lo) ==
    UNION {{lo[stage][k] : k \in 1..Len(lo[stage])} : stage \in 0..(g.n_stage - 1)}

\* A node with the key get_prev_key names is in the result, on the same or a
\* neighbouring stage, and has completed, c_cost earlier when on a
\* neighbouring stage, before n starts.
PredecessorDone(g, cfg, lo, et, n) ==
    LET r == get_prev_key(Defaulted(n), 2 * cfg.n_stages)
    IN /\ r.ok
       /\ ~r.key.none
          => \E p \in AllNodes(g, lo) :
                /\ get_key(Defaulted(p)) = r.key.value
                /\ p.stage \in {n.stage - 1, n.stage, n.stage + 1}
                /\ NodeStart(g, cfg, et, n)
                     >= NodeEnd(g, cfg, et, p)
                          + (IF p.stage # n.stage THEN g.c_cost ELSE 0)

\* The B of the same stage, chunk and microbatch has completed before W starts.
OwnBDone(g, cfg, lo, et, n) ==
    \E p \in AllNodes(g, lo) :
        /\ p.type = "B" /\ p.stage = n.stage /\ p.chunk = n.chunk
        /\ p.microbatch = n.microbatch
        /\ NodeStart(g, cfg, et, n) >= NodeEnd(g, cfg, et, p)

\* C24: in the result of the V-schedule construction every F and B node
\* starts no earlier than its logical predecessor (get_prev_key with
\* 2 * n_stages layer groups) completes, plus c_cost when the predecessor is
\* on a neighbouring stage; every W node starts no earlier than the
\* completion of the B node of the same stage, chunk and microbatch.
C24_DependenciesMet ==
    zres = "returned"
    => \A n \in AllNodes(graph, local_order) :
          /\ n.type \in {"F", "B"}
             => PredecessorDone(graph, config, local_order, end_time, n)
          /\ n.type = "W" => OwnBDone(graph, config, local_order, end_time, n)

\* Witness of C24: with a communication cost of 2 some B starts exactly when
\* the B of the next layer group, on the neighbouring stage, has completed
\* and its gradient has arrived.
C24_Witness ==
    /\ zres = "returned"
    /\ graph.c_cost = 2
    /\ \E n \in AllNodes(graph, local_order), p \in AllNodes(graph, local_order) :
          /\ n.type = "B" /\ p.type = "B"
          /\ p.stage # n.stage
          /\ p.microbatch = n.microbatch
          /\ p.layer_group_idx = n.layer_group_idx + 1
          /\ NodeStart(graph, config, end_time, n)
               = NodeEnd(graph, config, end_time, p) + graph.c_cost

(***************************************************************************)
(* get_prev_key                                                            *)
(***************************************************************************)
\* The key of the given type and layer group for the microbatch and sequence
\* split of the node get_prev_key was called on.
KeyLike(type, idx) == Obj(NodeKey(type, idx, knode.microbatch, knode.seq_split_idx))

\* C28: get_prev_key(n) returns, for the same microbatch and sequence split:
\* for F the F key of layer group idx-1, or None when idx is 0; for B or BW
\* the key of the same type at layer group idx+1, except that at the last
\* layer group (idx+1 = n) it returns the F key of the same layer group; for
\* W the B key of the same layer group; it fails an assertion when
\* layer_group_idx is unset, when idx+1 > n for B/BW, and for any other type.
C28_PrevKey ==
    kres # "new"
    => LET idx == knode.layer_group_idx
       IN IF idx = NoneInt THEN kres = "raised"
          ELSE IF knode.type = "F"
          THEN /\ kres = "returned"
               /\ prev_key = IF idx = 0 THEN NoneObj ELSE KeyLike("F", idx - 1)
          ELSE IF knode.type \in {"B", "BW"}
          THEN IF idx + 1 > n_layer_groups THEN kres = "raised"
               ELSE /\ kres = "returned"
                    /\ prev_key = IF idx + 1 = n_layer_groups
                                  THEN KeyLike("F", idx)
                                  ELSE KeyLike(knode.type, idx + 1)
          ELSE IF knode.type = "W"
          THEN /\ kres = "returned"
               /\ prev_key = KeyLike("B", idx)
          ELSE kres = "raised"

\* Witness of C28: a BW node of the last of 4 layer groups, microbatch 1 and
\* sequence split 1, is answered with the F key of that layer group.
C28_Witness ==
    /\ kres = "returned"
    /\ knode.type = "BW" /\ knode.layer_group_idx = 3 /\ n_layer_groups = 4
    /\ knode.microbatch = 1 /\ knode.seq_split_idx = 1
    /\ prev_key = Obj(NodeKey("F", 3, 1, 1))

(***************************************************************************)
(* Assertions of try_v_schedule                                            *)
(***************************************************************************)
\* Every node of the graph has a recorded completion time.
AllPlaced(g, et) == \A id \in 0..(g.n_node - 1) : et[id] >= 0

\* C25: for n_stage >= 2, n_micro >= 1, positive f/b/w costs, non-negative
\* c_cost and the default memory ceiling, try_v_schedule runs to completion
\* for all four (fill_f, fill_b) combinations without any assertion failing
\* (the per-cell cap n_micro, the memory ceiling max_mem, the recorded
\* completion time of every dependency, the non-empty pending-W queue).
C25_NoAssertionFails ==
    /\ tried.ok
    /\ zres \in {"new", "trying", "returned"}
    /\ tries > 0 => AllPlaced(graph, tried.end_time)
    /\ zres = "returned" => tries = Len(FillCombos)

\* Witness of C25: the fourth try, with fill_f and fill_b both off, has ended
\* on a graph of 3 stages and 3 microbatches whose memory ceiling of 6 F
\* activations is what 2 chunks of 3 microbatches could fill.
C25_Witness ==
    /\ tries = Len(FillCombos)
    /\ tried.ok
    /\ graph.n_stage = 3 /\ graph.n_micro = 3
    /\ graph.max_mem = 6 * graph.f_mem
    /\ graph.c_cost = 2
    /\ AllPlaced(graph, tried.end_time)

(***************************************************************************)
(* The approved-bubble recursion of try_v_schedule                         *)
(***************************************************************************)
\* The attempt logged at position k made a further recursive call.
CalledAgain(attempts, k) == k < Len(attempts)

\* C26: try_v_schedule terminates: an attempt makes a further recursive call
\* only when its maximum stage bubble is strictly smaller than the maximum of
\* the approved-bubble vector it was given, or no vector was given (the
\* maximum is then -1); so the maximum bubbles of the attempts that call
\* again are strictly decreasing and bounded below by 0, which bounds the
\* depth of the recursion by the first bubble, and the value returned is
\* never larger than the maximum bubble of the first attempt.
C26_RecursionTerminates ==
    (tries > 0 /\ tried.ok)
    => LET a == tried.attempts
       IN /\ Len(a) >= 1
          /\ a[1].max_approved_bubble = -1
          /\ \A k \in 1..Len(a) :
                /\ a[k].max_bubble >= 0
                /\ CalledAgain(a, k)
                   => \/ a[k].max_approved_bubble < 0
                      \/ a[k].max_bubble < a[k].max_approved_bubble
                /\ k > 1 => a[k].max_approved_bubble = a[k - 1].max_bubble
                /\ (k > 1 /\ CalledAgain(a, k))
                   => a[k].max_bubble < a[k - 1].max_bubble
          /\ Len(a) <= a[1].max_bubble + 2
          /\ tried.max_bubble <= a[1].max_bubble

\* Witness of C26: a recursion of three attempts whose second attempt has
\* improved on the first and whose third has not improved on the second.
C26_Witness ==
    /\ tries > 0 /\ tried.ok
    /\ Len(tried.attempts) = 3
    /\ tried.attempts[2].max_bubble < tried.attempts[1].max_bubble
    /\ tried.attempts[3].max_bubble >= tried.attempts[2].max_bubble
    /\ tried.max_bubble = tried.attempts[2].max_bubble

(***************************************************************************)
(* The nodes create_schedule returns                                       *)
(***************************************************************************)
\* The positions (stage, k) of the result that hold the given key.
Holders(g, lo, type, idx, microbatch) ==
    {p \in (0..(g.n_stage - 1)) \X (1..(6 * g.n_micro)) :
        /\ p[2] <= Len(lo[p[1]])
        /\ lo[p[1]][p[2]].type = type
        /\ lo[p[1]][p[2]].layer_group_idx = idx
        /\ lo[p[1]][p[2]].microbatch = microbatch}

\* C27: create_schedule maps the (category, chunk, micro) triples of the
\* construction so that an F node keeps its chunk index, a B or W node gets
\* chunk max_chunks-1-chunk, and layer_group_idx is n_stages*chunk + stage
\* for an even resulting chunk and n_stages*chunk + (n_stages-1-stage) for an
\* odd one; so stage i carries exactly the layer groups i and
\* 2*n_stages-1-i, and over all stages each (type, layer_group_idx,
\* microbatch) key with type in {F, B, W}, layer group in 0..2*n_stages-1 and
\* microbatch in 0..n_micro-1 occurs exactly once.
C27_LayerGroups ==
    zres = "returned"
    => /\ \A stage \in 0..(graph.n_stage - 1) :
             /\ Len(local_order[stage]) = Len(schedule[stage])
             /\ \A k \in 1..Len(schedule[stage]) :
                   LET entry == schedule[stage][k]
                       node == local_order[stage][k]
                   IN /\ node.type = <<"F", "B", "W">>[entry[1] + 1]
                      /\ node.microbatch = entry[3]
                      /\ node.stage = stage
                      /\ node.chunk = IF entry[1] = 0 THEN entry[2]
                                      ELSE config.max_chunks - 1 - entry[2]
                      /\ node.layer_group_idx
                           = IF node.chunk % 2 = 0
                             THEN config.n_stages * node.chunk + stage
                             ELSE config.n_stages * node.chunk
                                    + (config.n_stages - 1 - stage)
             /\ {local_order[stage][k].layer_group_idx :
                    k \in 1..Len(local_order[stage])}
                  = {stage, 2 * config.n_stages - 1 - stage}
       /\ \A type \in {"F", "B", "W"}, idx \in 0..(2 * config.n_stages - 1),
             microbatch \in 0..(config.n_micro - 1) :
               Cardinality(Holders(graph, local_order, type, idx, microbatch)) = 1

\* Witness of C27: on 3 stages the B placed with chunk 0 on stage 1 is
\* returned with chunk 1 and layer group 4, the W after it likewise, and the
\* F of chunk 1 on that stage has layer group 4 too.
C27_Witness ==
    /\ zres = "returned"
    /\ config.n_stages = 3 /\ config.n_micro = 2
    /\ \E k \in 1..Len(schedule[1]) :
          /\ schedule[1][k] = <<1, 0, 1>>
          /\ local_order[1][k] = [type |-> "B", chunk |-> 1, stage |-> 1,
                                  microbatch |-> 1, layer_group_idx |-> 4]
    /\ \E k \in 1..Len(schedule[1]) :
          /\ schedule[1][k] = <<2, 0, 0>>
          /\ local_order[1][k].chunk = 1
          /\ local_order[1][k].layer_group_idx = 4
    /\ \E k \in 1..Len(schedule[1]) :
          /\ schedule[1][k] = <<0, 1, 0>>
          /\ local_order[1][k].layer_group_idx = 4

(***************************************************************************)
(* add_communication in run()                                              *)
(***************************************************************************)
\* The node after cursor it is not a communication node (or there is none).
NextNotComm(sch, it) ==
    it + 2 > Len(sch) \/ sch[it + 2].type \notin AUTO_SCHEDULE_COMMUNICATION_TYPES

\* The computation nodes after cursor it.
ComputeAfter(sch, it) ==
    {j \in (it + 1)..(Len(sch) - 1) : is_computation(sch[j + 1].type)}

\* The first computation node after cursor it consumes what the node at it
\* receives.
ConsumedNext(sch, it) ==
    \E j \in ComputeAfter(sch, it) :
        /\ \A i \in ComputeAfter(sch, it) : j <= i
        /\ sch[j + 1].chunk = sch[it + 1].chunk
        /\ sch[j + 1].seq_split_idx = sch[it + 1].seq_split_idx
        /\ sch[j + 1].microbatch = sch[it + 1].microbatch
        /\ \/ sch[it + 1].type = "RECV_FORWARD" /\ sch[j + 1].type = "F"
           \/ sch[it + 1].type = "RECV_BACKWARD" /\ sch[j + 1].type \in {"B", "BW"}

\* The record's entry after position p is a flush that issues node it.
FlushedAt(evs, p, it) ==
    /\ p < Len(evs)
    /\ evs[p + 1].ev = "issue"
    /\ \E k \in 1..Len(evs[p + 1].nodes) : evs[p + 1].nodes[k] = it

\* Node it is in no flush of the record up to and including position p.
NotIssuedUpTo(evs, p, it) ==
    \A q \in 1..p :
        evs[q].ev = "issue" => \A k \in 1..Len(evs[q].nodes) : evs[q].nodes[k] # it

\* C30: a communication node added to the pending batch causes the batch to
\* be flushed immediately exactly when the immediately following scheduled
\* node is not a communication node, or the following compute node consumes
\* this communication's result (same chunk, sequence split and microbatch,
\* RECV_FORWARD paired with F or RECV_BACKWARD with B/BW), or the iteration
\* is forward-only; otherwise the node stays pending until a later flush; in
\* forward-only mode backward communication nodes are dropped without being
\* added or flushed.
C30_FlushOnAdd ==
    (RanRun /\ rres.ok) =>
        \A p \in 1..Len(log) :
            /\ log[p].ev = "add"
               => LET it == log[p].it
                  IN IF \/ NextNotComm(schedules, it)
                        \/ ConsumedNext(schedules, it)
                        \/ curr_iteration.iteration_config.forward_only
                     THEN FlushedAt(log, p, it)
                     ELSE /\ log[p + 1].ev # "issue"
                          /\ \E q \in (p + 1)..(Len(log) - 1) :
                                FlushedAt(log, q, it)
            /\ log[p].ev = "add"
               => ~(/\ curr_iteration.iteration_config.forward_only
                    /\ is_backward_comm(schedules[log[p].it + 1].type))
            /\ log[p].ev = "drop"
               => /\ curr_iteration.iteration_config.forward_only
                  /\ is_backward_comm(schedules[log[p].it + 1].type)
                  /\ NotIssuedUpTo(log, Len(log), log[p].it)
                  /\ \A q \in 1..Len(log) :
                        log[q].ev = "add" => log[q].it # log[p].it

\* Witness of C30: in a run that has returned, the receive of microbatch 2 is
\* added while the next node is a send and the next compute node is the
\* forward of microbatch 1, and stays pending until the send has been added;
\* the receive of microbatch 0 before it was flushed at once although a
\* receive follows, being consumed by the forward of microbatch 0.
C30_Witness ==
    /\ RanRun /\ rres.ok
    /\ schedules = Schedule_ahead
    /\ ~curr_iteration.iteration_config.forward_only
    /\ \E p \in 1..Len(log) :
          /\ log[p].ev = "add" /\ log[p].it = 3
          /\ log[p + 1].ev = "add" /\ log[p + 1].it = 4
          /\ log[p + 2].ev = "issue"
          /\ Len(log[p + 2].nodes) = 2
    /\ log[1].ev = "add" /\ log[1].it = 0
    /\ log[2].ev = "issue" /\ log[2].nodes = <<0>>

(***************************************************************************)
(* Claims about the W nodes of run                                         *)
(***************************************************************************)
\* Non-W nodes remain in the schedule after the node of the log entry e.
PendingAfter(e) ==
    \E j \in (e.it + 2)..Len(wconf.schedules) : wconf.schedules[j].type # "W"

\* The node of the log entry e is the last microbatch of the iteration.
LastMicrobatch(e) == e.microbatch = wconf.num_microbatches - 1

\* The closures of the queued units, in enqueue order.
QueuedIds(units) == [i \in 1..Len(units) |-> units[i][1].id]

\* The W node of wlog[k] did what the claim says, pops being the condition
\* under which one unit is popped: popped and ran the oldest unit of its
\* chunk, or else drained the chunk's queue with clear if no earlier node of
\* the chunk had, or else did nothing.
WOutcome(k, pops) ==
    LET e == wlog[k]
        cleared == \E j \in 1..(k - 1) :
                       wlog[j].chunk = e.chunk /\ wlog[j].branch = "clear"
    IN IF pops
       THEN /\ e.branch = "pop"
            /\ e.before # <<>>
            /\ e.ran = <<e.before[1][1].id>>
       ELSE IF ~cleared
       THEN e.branch = "clear" /\ e.ran = QueuedIds(e.before)
       ELSE e.branch = "skip" /\ e.ran = <<>>

\* clear ran at most once for each chunk.
ClearOncePerChunk ==
    \A j, k \in 1..Len(wlog) :
        wlog[j].branch = "clear" /\ wlog[k].branch = "clear" /\
        wlog[j].chunk = wlog[k].chunk => j = k

\* C29, as stated: outside forward-only mode a W node pops and runs exactly
\* one unit of its chunk if non-W nodes remain later in the schedule or, with
\* multiple chunks, it is not the last microbatch; otherwise the first such
\* node of a chunk drains the chunk's queue with clear and the later ones do
\* nothing, so clear runs at most once per chunk.
C29_PopOrClear_AsStated ==
    ~wconf.forward_only =>
        /\ \A k \in 1..Len(wlog) :
               WOutcome(k, \/ PendingAfter(wlog[k])
                           \/ wconf.multi_chunks /\ ~LastMicrobatch(wlog[k]))
        /\ ClearOncePerChunk

\* C29, amended: outside forward-only mode a W node pops and runs exactly one
\* unit of its chunk if non-W nodes remain later in the schedule and, with
\* multiple chunks, it is also not the last microbatch; otherwise the first
\* such node of a chunk drains the chunk's queue with clear and the later
\* ones do nothing, so clear runs at most once per chunk.
C29_PopOrClear ==
    ~wconf.forward_only =>
        /\ \A k \in 1..Len(wlog) :
               WOutcome(k, /\ PendingAfter(wlog[k])
                           /\ wconf.multi_chunks => ~LastMicrobatch(wlog[k]))
        /\ ClearOncePerChunk

\* With two chunks and nothing but W nodes left, a W node that is not the
\* last microbatch drained a queue of two units with clear, after another W
\* node had popped one unit, and a later W node of the chunk did nothing.
C29_Witness ==
    /\ ~wconf.forward_only
    /\ wconf.multi_chunks
    /\ \E k \in 1..Len(wlog) :
          /\ ~PendingAfter(wlog[k])
          /\ ~LastMicrobatch(wlog[k])
          /\ wlog[k].branch = "clear"
          /\ Len(wlog[k].before) >= 2
          /\ \E j \in 1..(k - 1) : wlog[j].branch = "pop"
          /\ \E j \in (k + 1)..Len(wlog) :
                 wlog[j].branch = "skip" /\ wlog[j].chunk = wlog[k].chunk

(***************************************************************************)
(* Claims about the schedule cache                                         *)
(***************************************************************************)
\* The update_schedule calls of kind made by the invocation k.
Built(k, kind) ==
    \E i \in 1..Len(invocations[k].updates) : invocations[k].updates[i] = kind

\* C31: over the invocations of the schedule-caching wrapper, the schedule
\* is built from the fixed-cost placeholder by the first invocation only
\* (the one that finds the cache empty) and rebuilt from the profiled
\* statistics only by the first invocation that finds the profiling
\* concluded, each by one update_schedule call; an invocation that finds the
\* cache marked as auto-scheduled calls update_schedule not at all and
\* leaves the cached schedule as it was.
C31_BuiltOnceRebuiltOnce ==
    \A k \in 1..Len(invocations) :
        LET e == invocations[k]
        IN /\ Built(k, "fixed") <=> k = 1
           /\ Built(k, "fixed") <=> e.before.none
           /\ Built(k, "profiled") <=>
                  e.concluded /\ \A j \in 1..(k - 1) : ~invocations[j].concluded
           /\ Len(e.updates) <= 2
           /\ Len(e.updates) = 2 => e.updates = <<"fixed", "profiled">>
           /\ e.was_auto => e.updates = <<>> /\ e.after = e.before
           /\ k > 1 => e.before = invocations[k - 1].after

\* The first invocation built the placeholder schedule, a later one found
\* the profiling concluded and rebuilt it, and one after that found the
\* cache marked and left it alone.
C31_Witness ==
    /\ Len(invocations) >= 3
    /\ Built(1, "fixed") /\ ~Built(1, "profiled")
    /\ \E k \in 2..(Len(invocations) - 1) :
          /\ Built(k, "profiled")
          /\ invocations[k].after # invocations[k].before
          /\ invocations[k + 1].was_auto
          /\ invocations[k + 1].updates = <<>>
    /\ is_auto_schedule

\* The descriptors recorded for the slots are all still recorded, unchanged,
\* after the step.
DescriptorsKept ==
    /\ Len(store'._offload_tensor_info) >= Len(store._offload_tensor_info)
    /\ \A k \in 1..Len(store._offload_tensor_info) :
           store'._offload_tensor_info[k] = store._offload_tensor_info[k]

\* The saves the hook accepted as the k-th offloaded save carry the
\* descriptor recorded for slot k.
AcceptedMatchRecorded(saves) ==
    \A i \in 1..Len(saves) :
        saves[i].handle.type = "OFFLOAD" =>
            /\ saves[i].handle.index <= Len(store._offload_tensor_info)
            /\ store._offload_tensor_info[saves[i].handle.index]
                   = tensor_info(saves[i].tensor)

\* C32: once a descriptor (shape, layout, dtype, stride) is recorded for
\* slot k of an ActivationStore, no operation, reset_state included, removes
\* or changes it, and the save hook accepts a k-th offloaded save, in the
\* lifecycle that recorded it and in every later one, only with that
\* descriptor: a save with another descriptor fails.
C32_DescriptorsFixed ==
    /\ [](AcceptedMatchRecorded(handles) /\ AcceptedMatchRecorded(first))
    /\ [][DescriptorsKept]_vars

\* In a later lifecycle the first offloaded save had a descriptor other than
\* the recorded one: the hook raised, with the tensor already appended to the
\* in-memory list and the recorded descriptor as it was.
C32_Witness ==
    /\ cycle >= 1
    /\ Len(first) >= 1 /\ first[1].handle.type = "OFFLOAD"
    /\ sres.op = "raised"
    /\ store._state = State_SAVING
    /\ Len(store._gpu_store) = 1
    /\ store._offload_tensor_info[1] # tensor_info(store._gpu_store[1])
    /\ store._offload_tensor_info[1] = tensor_info(first[1].tensor)

\* The handle h, or a parent handle of it, is an OFFLOAD handle of slot k.
OffloadHandleOf(h, k) ==
    \/ h.type = "OFFLOAD" /\ h.index = k
    \/ /\ h.type = "RECOMPUTE"
       /\ \E j \in 1..Len(h.parents) :
              h.parents[j].type = "OFFLOAD" /\ h.parents[j].index = k

\* The step is a resume hook call on the i-th handle that returned.
ResumeHookReturned(i) == sres'.op = "resume_hook" /\ sres'.arg = i

\* A resume_release that returns found every slot of the in-memory list
\* nulled, each by a resume hook call on an OFFLOAD handle of the slot.
ReleaseNeedsAllConsumed ==
    sres'.op = "resume_release" =>
        \A k \in 1..Len(store._gpu_store) :
            /\ store._gpu_store[k].mem = "none"
            /\ \E i \in resumed : OffloadHandleOf(handles[i].handle, k)

\* A resume hook call on an OFFLOAD handle returns what the slot holds and
\* nulls the slot: the tensor on the first call, nothing on a second one.
OffloadHandleSingleUse ==
    \A i \in 1..Len(handles) :
        ResumeHookReturned(i) /\ handles[i].handle.type = "OFFLOAD" =>
            LET k == handles[i].handle.index
            IN /\ sres'.ret = Returned(store, store._gpu_store[k])
               /\ store'._gpu_store = [store._gpu_store EXCEPT ![k] = NoTensor]
               /\ sres'.ret.none <=> i \in resumed

\* A resume hook call on a PASS_THROUGH or ALIAS handle returns a tensor and
\* leaves the in-memory list as it was, however often it is made.
OtherHandlesReusable ==
    \A i \in 1..Len(handles) :
        ResumeHookReturned(i) /\ handles[i].handle.type \in {"PASS_THROUGH", "ALIAS"} =>
            /\ store'._gpu_store = store._gpu_store
            /\ ~sres'.ret.none

\* C33: resume_release succeeds only if every slot of the in-memory list was
\* consumed by a resume hook call on an OFFLOAD handle; such a call returns
\* the slot's tensor the first time and nulls the slot, so a second resume of
\* the same handle returns no tensor; PASS_THROUGH and ALIAS handles are
\* resumed any number of times without a change of the list.
C33_SingleUseSlots ==
    [][ReleaseNeedsAllConsumed /\ OffloadHandleSingleUse /\ OtherHandlesReusable]_vars

\* An OFFLOAD handle was resumed a second time: the call returned None.
C33_Witness ==
    /\ sres.op = "resume_hook"
    /\ sres.arg \in resumed
    /\ handles[sres.arg].handle.type = "OFFLOAD"
    /\ sres.ret.none
    /\ store._gpu_store[handles[sres.arg].handle.index].mem = "none"
    /\ \E i \in resumed : handles[i].handle.type \in {"PASS_THROUGH", "ALIAS"}

\* The number of times the store id occurs in a log of the pool.
Occurrences(ids, id) == Cardinality({k \in 1..Len(ids) : ids[k] = id})

InPool(id) == \E k \in 1..Len(_pool) : _pool[k] = id
InQueue(id) == \E k \in 1..Len(_queue) : _queue[k] = id

\* The store was handed out by get_for_save and has not been released since:
\* it waits in the active queue or is with the caller of get_for_resume.
Outstanding(id) ==
    \/ Occurrences(saved, id) > Occurrences(handed, id)
    \/ Occurrences(handed, id) > 0 /\ ~InPool(id)

\* Every store is idle or outstanding, never both, and in neither list twice.
PoolAndQueueDisjoint ==
    /\ \A id \in 1..Len(objs) :
           /\ ~(InPool(id) /\ InQueue(id))
           /\ InPool(id) <=> ~Outstanding(id)
           /\ InQueue(id) <=> Occurrences(saved, id) > Occurrences(handed, id)
    /\ \A j, k \in 1..Len(_pool) : _pool[j] = _pool[k] => j = k
    /\ \A j, k \in 1..Len(_queue) : _queue[j] = _queue[k] => j = k

\* A get_for_save call constructs a store exactly when the idle pool is
\* empty, which is when every store constructed so far is outstanding; after
\* it the stores constructed are all outstanding at once.
ConstructsOnlyOnEmptyPool ==
    /\ Len(objs') >= Len(objs)
    /\ Len(objs') > Len(objs) => Len(saved') > Len(saved)
    /\ Len(saved') > Len(saved) =>
           /\ Len(objs') = Len(objs) + 1 <=> _pool = <<>>
           /\ Len(objs') = Len(objs) + 1 <=>
                  \A id \in 1..Len(objs) : Outstanding(id)
           /\ Len(objs') = Len(objs) + 1 =>
                  Cardinality({id \in 1..Len(objs') : Outstanding(id)'}) = Len(objs')

\* C34: when every released store is one that get_for_resume handed out (and
\* that has not been released since), get_for_save constructs a new store
\* only when the idle pool is empty, so the stores ever constructed are as
\* many as were outstanding at once at the most, and no store is in the idle
\* pool and in the active queue at the same time.
C34_PoolBound ==
    /\ [](PoolAndQueueDisjoint /\
          Cardinality({id \in 1..Len(objs) : Outstanding(id)}) <= Len(objs))
    /\ [][ConstructsOnlyOnEmptyPool]_vars

\* Two stores were constructed while both were outstanding; the third
\* get_for_save found store 1 released and handed it out again instead of
\* constructing a third.
C34_Witness ==
    /\ saved = <<1, 2, 1>>
    /\ Len(objs) = 2
    /\ pres.op = "get_for_save"
    /\ InQueue(1) /\ Outstanding(2)

(***************************************************************************)
(* Claims about the nodes of a V schedule under run                        *)
(***************************************************************************)
\* The positions in the stage's schedule of the nodes of a type and chunk.
PositionsOf(type, chunk) ==
    {k \in 1..Len(wconf.schedules) :
        wconf.schedules[k].type = type /\ wconf.schedules[k].chunk = chunk}

\* The nodes of the type and chunk come in increasing microbatch order.
IncreasingMicrobatches(type, chunk) ==
    \A j, k \in PositionsOf(type, chunk) :
        j < k => wconf.schedules[j].microbatch < wconf.schedules[k].microbatch

\* Every node of the type later has the node of the type earlier, of its
\* chunk and microbatch, before it.
ComesAfter(later, earlier, chunk) ==
    \A k \in PositionsOf(later, chunk) :
        \E j \in PositionsOf(earlier, chunk) :
            j < k /\ wconf.schedules[j].microbatch = wconf.schedules[k].microbatch

\* The W node of the last microbatch is the last W node of its chunk.
LastWIsLastMicrobatch(chunk) ==
    \A k \in PositionsOf("W", chunk) :
        wconf.schedules[k].microbatch = wconf.num_microbatches - 1 =>
            \A j \in PositionsOf("W", chunk) : j <= k

\* C35: in a stage's schedule made by create_schedule the F, the B and the W
\* nodes of a chunk each come in increasing microbatch order, every B after
\* the F and every W after the B of its chunk and microbatch; so, when run
\* walks the schedule with one sequence split, the pop of a B node returns
\* what the F node of its chunk and microbatch pushed, no W node pops an
\* empty weight-gradient queue, and the W node of the last microbatch is the
\* last W node of its chunk.
C35_PerChunkOrder ==
    wconf.multi_chunks =>
        /\ \A chunk \in Chunks :
               /\ \A type \in {"F", "B", "W"} : IncreasingMicrobatches(type, chunk)
               /\ ComesAfter("B", "F", chunk)
               /\ ComesAfter("W", "B", chunk)
               /\ LastWIsLastMicrobatch(chunk)
        /\ \A k \in 1..Len(wpops) :
               wpops[k].ok /\ wpops[k].ret = wpops[k].microbatch
        /\ \A k \in 1..Len(wlog) : wlog[k].branch # "raise"
        /\ ~wraised

\* A training walk over a whole stage schedule of two chunks and more than
\* one microbatch: B nodes of both chunks popped the input of their
\* microbatch, a W node popped a unit, and the last W node of a chunk was
\* the one of the last microbatch.
C35_Witness ==
    /\ wconf.multi_chunks /\ ~wconf.forward_only
    /\ wconf.num_microbatches >= 2
    /\ wit = Len(wconf.schedules)
    /\ \A chunk \in Chunks :
           \E k \in 1..Len(wpops) :
               wpops[k].chunk = chunk /\ wpops[k].microbatch >= 1 /\
               wpops[k].ret = wpops[k].microbatch
    /\ \E k \in 1..Len(wlog) : wlog[k].branch = "pop"
    /\ \A chunk \in Chunks :
           /\ PositionsOf("W", chunk) # {}
           /\ LastWIsLastMicrobatch(chunk)
    /\ \E j, k \in 1..Len(wpops) :
           j < k /\ wpops[j].microbatch > wpops[k].microbatch

(***************************************************************************)
(* C36.  When run_until_post_validation has succeeded on an iteration (the *)
(* optimizer does this step and its post_validation reports success) and   *)
(* run() is then called on the same iteration, run() starts at the cursor  *)
(* of the POST_VALIDATION node and touches no node before it; when run()   *)
(* returns, every node of the schedule has been dispatched exactly once    *)
(* across the two calls: the nodes up to the POST_VALIDATION node in       *)
(* run_until_post_validation only, the later nodes in run() only, and the  *)
(* post-validation-related nodes run() meets are skipped.                  *)
(***************************************************************************)
\* The events with which a call records that it executed the node at a cursor.
DispatchEvents ==
    {"add", "drop", "F", "B", "BW", "W", "recv_post_validation",
     "send_post_validation", "post_validation"}

\* How often the call that left the record evs executed the node at cursor it.
Dispatches(evs, it) ==
    Cardinality({k \in 1..Len(evs) : evs[k].ev \in DispatchEvents /\ evs[k].it = it})

\* The cursors the call that left the record evs has looked at.
Visited(evs) == {evs[k].it : k \in {j \in 1..Len(evs) : evs[j].ev # "return"}} \ {-1}

\* The cursor of the POST_VALIDATION node of the schedule.
PostValidationCursor ==
    CHOOSE it \in 0..(Len(schedules) - 1) : schedules[it + 1].type = "POST_VALIDATION"

\* The last call is run() promoting the iteration on which the call before,
\* post_validate, ran run_until_post_validation with success.
RunAfterSucceededValidation ==
    /\ rres.op = "run" /\ ~rres.built /\ rres.it0 >= 0
    /\ prev.rres.op = "post_validate" /\ prev.rres.ok
    /\ prev.rres.kwargs.optimizer.do_this_step
    /\ prev.rres.kwargs.optimizer.succeed

C36_DispatchedOnce ==
    RunAfterSucceededValidation =>
        /\ \E it \in 0..(Len(schedules) - 1) : schedules[it + 1].type = "POST_VALIDATION"
        /\ rres.it0 = PostValidationCursor
        /\ \A it \in Visited(log) : it >= PostValidationCursor
        /\ \A it \in 0..PostValidationCursor : Dispatches(prev.log, it) = 1
        /\ \A it \in Visited(prev.log) : it <= PostValidationCursor
        /\ rres.ok =>
              \A it \in 0..(Len(schedules) - 1) :
                  /\ Dispatches(prev.log, it) + Dispatches(log, it) = 1
                  /\ it < PostValidationCursor => it \notin Visited(log)
                  /\ (it >= PostValidationCursor
                        /\ is_post_validation_related(schedules[it + 1].type)) =>
                        /\ Dispatches(log, it) = 0
                        /\ \E k \in 1..Len(log) : log[k] = Ev("ignore", it, <<>>, -1, 0)
                  /\ (it > PostValidationCursor
                        /\ ~is_post_validation_related(schedules[it + 1].type)) =>
                        Dispatches(log, it) = 1

\* run() has returned after a successful validation that executed a forward
\* pass and a communication node before the POST_VALIDATION node.
C36_Witness ==
    /\ RunAfterSucceededValidation
    /\ rres.ok
    /\ PostValidationCursor > 0
    /\ \E j, k \in 1..Len(prev.log) : prev.log[j].ev = "F" /\ prev.log[k].ev = "add"
    /\ \E k \in 1..Len(log) : log[k].ev = "F"

(***************************************************************************)
(* WeightGradStore: every closure from put to execution                    *)
(***************************************************************************)
\* The identities of the closures of one unit (or of the cache).
IdSet(closures) == {closures[k].id : k \in 1..Len(closures)}

\* The identities of the closures queued for a chunk.
QueueIds(queue, chunk) ==
    UNION {IdSet(queue[chunk][u]) : u \in 1..Len(queue[chunk])}

ExecutedIds(ids) == {ids[k] : k \in 1..Len(ids)}

\* A closure is in one place only: the cache, the queue of one chunk, or the
\* record of executions, where it appears once.
OnePlaceOnly ==
    /\ IdSet(cache) \cap (QueueIds(weight_grad_queue, 0)
                                  \cup QueueIds(weight_grad_queue, 1)) = {}
    /\ QueueIds(weight_grad_queue, 0) \cap QueueIds(weight_grad_queue, 1) = {}
    /\ ExecutedIds(executed) \cap (IdSet(cache)
                                      \cup QueueIds(weight_grad_queue, 0)
                                      \cup QueueIds(weight_grad_queue, 1)) = {}
    /\ \A j, k \in 1..Len(executed) : executed[j] = executed[k] => j = k
    /\ IdSet(cache) \cup QueueIds(weight_grad_queue, 0)
          \cup QueueIds(weight_grad_queue, 1) \cup ExecutedIds(executed) \subseteq 1..nput

\* C37 as stated: every closure that has been put is still in the cache,
\* still queued for the chunk it was flushed to, or has been executed once;
\* none is dropped.
C37_NoneDropped_AsStated ==
    /\ OnePlaceOnly
    /\ IdSet(cache) \cup QueueIds(weight_grad_queue, 0)
          \cup QueueIds(weight_grad_queue, 1) \cup ExecutedIds(executed) = 1..nput

\* What one call does to the closures.
ExecutedByChunkOnly ==
    LET ran == ExecutedIds(executed') \ ExecutedIds(executed)
        chunk == wres'.chunk
        taken == QueueIds(weight_grad_queue, chunk) \ QueueIds(weight_grad_queue', chunk)
    IN /\ Len(executed') >= Len(executed)
       /\ SubSeq(executed', 1, Len(executed)) = executed
       /\ IF wres'.op \in {"pop", "clear"}
          THEN /\ ran \subseteq taken
               /\ weight_grad_queue'[1 - chunk] = weight_grad_queue[1 - chunk]
               /\ cache' = cache
               /\ QueueIds(weight_grad_queue', chunk) \subseteq QueueIds(weight_grad_queue, chunk)
               /\ wres'.ok => ran = taken
               /\ (wres'.op = "pop" /\ ~wres'.ok) => weight_grad_queue' = weight_grad_queue
          ELSE /\ executed' = executed
               /\ IdSet(cache) \cup QueueIds(weight_grad_queue, 0)
                     \cup QueueIds(weight_grad_queue, 1)
                  \subseteq IdSet(cache') \cup QueueIds(weight_grad_queue', 0)
                               \cup QueueIds(weight_grad_queue', 1)

\* C37 (amended): across any interleaving of put, flush, pop and clear, a
\* closure is executed at most once, only by a pop or clear of the chunk it
\* was flushed to and so never before its flush; a pop or clear that returns
\* has executed exactly the closures it took off the chunk's queue, each
\* once; pop and clear leave the other chunk's queue and the cache unchanged,
\* and a closure in the cache is never executed.  Only a clear that fails one
\* of its assertions takes closures off the queue without executing them.
C37_ExecutedOnceByOwnChunk == []OnePlaceOnly /\ [][ExecutedByChunkOnly]_vars

\* A clear of chunk 1 has returned after executing a flushed unit of two closures while a
\* unit of chunk 0 stays queued and a closure stays in the cache.
C37_Witness ==
    /\ wres.op = "clear" /\ wres.chunk = 1 /\ wres.ok
    /\ Len(executed) = 2
    /\ Len(weight_grad_queue[0]) = 1 /\ weight_grad_queue[0][1] # <<>>
    /\ weight_grad_queue[1] = <<>>
    /\ cache # <<>>

(***************************************************************************)
(* ActivationStore: the number of tensors of a lifecycle and the layout    *)
(***************************************************************************)
\* The slots for which the save hooks of this lifecycle returned an OFFLOAD
\* handle, directly or as a parent of a recomputed tensor.
OffloadedSlots ==
    {handles[i].handle.index :
        i \in {j \in 1..Len(handles) : handles[j].handle.type = "OFFLOAD"}}
    \cup UNION {{handles[i].handle.parents[p].index :
                    p \in {q \in 1..Len(handles[i].handle.parents) :
                              handles[i].handle.parents[q].type = "OFFLOAD"}} :
                i \in 1..Len(handles)}

\* The slots prepare_resume re-created that no resume hook has consumed.
UnconsumedSlots == {i \in 1..Len(store._gpu_store) : store._gpu_store[i].mem # "none"}

\* A lifecycle that completed resume_release saved one tensor per recorded
\* descriptor, and every descriptor has its packed slot.
CompletedLifecycleFillsLayout ==
    sres.op = "resume_release" =>
        /\ store._continuous_cpu_buffer # NoBuffer
        /\ Len(store._index_cpu_buffer) = Len(store._offload_tensor_info)
        /\ OffloadedSlots = 1..Len(store._offload_tensor_info)

\* C38 as stated: every lifecycle that completes resume_release has saved
\* one tensor per recorded slot descriptor, whatever happened before.
C38_EveryCompletedLifecycle_AsStated == CompletedLifecycleFillsLayout

\* offload and resume_release, recognised by the state change they make.
FewerOrMoreFails ==
    /\ (store._state = State_SAVING /\ store'._state = State_OFFLOADED
           /\ store._continuous_cpu_buffer # NoBuffer) =>
          /\ Len(store._gpu_store) > Len(store._index_cpu_buffer) =>
                sres'.op = "raised" /\ ~store'._offloaded
          /\ sres'.op = "offload" =>
                Len(store._gpu_store) <= Len(store._index_cpu_buffer)
    /\ (store._state = State_RESUMED /\ store'._state = State_RESUME_RELEASED
           /\ OffloadedSlots # 1..Len(store._offload_tensor_info)) =>
          /\ sres'.op = "raised"
          /\ UnconsumedSlots \ OffloadedSlots # {}
          /\ store'._gpu_store = store._gpu_store

\* C38 (amended): on a store none of whose calls has raised before, once the
\* first offload has fixed the packed layout, a lifecycle that completes
\* resume_release has saved and offloaded exactly one tensor per recorded
\* slot descriptor; with fewer tensors, slots that prepare_resume re-created
\* stay unconsumed and resume_release fails its all-consumed assertion; with
\* more tensors than packed slots, offload fails.
C38_LifecycleMatchesLayout ==
    /\ [](~has_raised => CompletedLifecycleFillsLayout)
    /\ [][~has_raised => FewerOrMoreFails]_vars

\* A second lifecycle of the store has completed resume_release, every call
\* on the store having returned.
C38_Witness ==
    /\ sres.op = "resume_release"
    /\ ~has_raised
    /\ cycle >= 1
    /\ Len(store._offload_tensor_info) >= 1
    /\ Len(handles) >= 1

(***************************************************************************)
(* The bin-size search of the packing step                                 *)
(***************************************************************************)
\* allocate_offset on the recorded slots of one element type, as
\* _allocate_cpu_buffers calls it.
SearchOf(d) == allocate_offset(TypeTensors(packing._offload_tensor_info, d, 1))

\* The turn of the while loop in which the first bin alone has the size of
\* the power of two at or above the total: 2 ** (max_split - 1).
LastTurn == Pow2(max_split - 1)

\* C39: for every non-empty list of positive sizes that are multiples of 64
\* the bin-size search returns (by the turn in which one bin holds
\* everything), and on return both of its assertions hold: every tensor has
\* a place and every bin of the accepted assignment holds at least one
\* tensor.
C39_SearchReturns ==
    /\ packres # "raised"
    /\ packres = "allocated" =>
          \A d \in SeenDTypes(packing._offload_tensor_info) :
             \E r \in {SearchOf(d)} :
                /\ \A i \in SlotsOf(d) :
                      PackedSize(i) > 0 /\ PackedSize(i) % alignment = 0
                /\ ~r.loops
                /\ r.turns <= LastTurn
                /\ r.ok
                /\ DOMAIN r.solution = SlotsOf(d)
                /\ Len(r.bins) = Len(r.solution_bins)
                /\ \A b \in 1..Len(r.bins) :
                      /\ r.bins[b] > 0
                      /\ \E i \in SlotsOf(d) : r.solution[i].bin = b
                /\ packing._continuous_cpu_buffer[d] = r.bins

\* Three tensors of 256, 128 and 64 packed elements: the search went through
\* six rejected turns and accepted three bins, one tensor in each.
C39_Witness ==
    /\ packres = "allocated"
    /\ \E d \in SeenDTypes(packing._offload_tensor_info) :
          /\ SearchOf(d).turns = 7
          /\ SearchOf(d).bins = <<256, 128, 64>>
          /\ Cardinality(SlotsOf(d)) = 3

(***************************************************************************)
(* SchedNodeRuntime: a forward-only run between post_validate and run      *)
(***************************************************************************)
\* The step is a forward-only run() made while a current and a next
\* iteration exist and post-validation is enabled.
ForwardOnlyWithNext ==
    /\ rres'.op = "run" /\ rres'.kwargs.forward_only = "True"
    /\ enable_optimizer_post_validation
    /\ curr_iteration # NoIteration
    /\ next_iteration # NoIteration

\* run() builds a fresh forward-only iteration, runs it from its first node and
\* leaves next_iteration as it is.
BuildsFreshKeepsNext ==
    ForwardOnlyWithNext =>
        /\ rres'.built /\ rres'.it0 = 0
        /\ \E r \in {TrainingIteration_run(schedules,
                         TrainingIteration([forward_only |-> TRUE], iteration_id),
                         data_iterator)} :
              curr_iteration' = r.ti /\ log' = r.log /\ rres'.ok = r.ok
        /\ curr_iteration'.iteration_id # next_iteration.iteration_id
        /\ iteration_id' = iteration_id + 1
        /\ next_iteration' = next_iteration

\* next_iteration is set by post_validate only, to the iteration it builds,
\* and emptied only by the run() that promotes it.
NextBuiltByPostValidate ==
    next_iteration' # next_iteration =>
        \/ /\ rres'.op = "post_validate"
           /\ next_iteration'.iteration_id = iteration_id
           /\ next_iteration'.iteration_config = prepare(rres'.kwargs)
        \/ /\ rres'.op = "run" /\ ~rres'.built
           /\ next_iteration' = NoIteration

\* A non-forward-only run() that finds a next iteration promotes it and runs
\* it from the cursor post_validate left it at.
PromotesNext ==
    (/\ rres'.op = "run" /\ rres'.kwargs.forward_only = "False"
     /\ enable_optimizer_post_validation
     /\ curr_iteration # NoIteration
     /\ next_iteration # NoIteration) =>
        /\ ~rres'.built
        /\ rres'.it0 = next_iteration.states.it
        /\ \E r \in {TrainingIteration_run(schedules, next_iteration, data_iterator)} :
              curr_iteration' = r.ti /\ log' = r.log /\ rres'.ok = r.ok
        /\ curr_iteration'.iteration_id = next_iteration.iteration_id
        /\ iteration_id' = iteration_id
        /\ next_iteration' = NoIteration

\* C40: a forward-only run() made while a next iteration built by
\* post_validate exists builds and runs a fresh iteration and leaves
\* next_iteration unchanged; the next non-forward-only run() promotes and
\* executes exactly that iteration, from the cursor post_validate left.
C40_ForwardOnlyKeepsNext ==
    [][BuildsFreshKeepsNext /\ NextBuiltByPostValidate /\ PromotesNext]_vars

\* run(), a successful post_validate, a forward-only run() and a run(): the
\* last call has promoted the iteration post_validate built (its cursor
\* stood behind the POST_VALIDATION node, its identity is older than that of
\* the forward-only iteration) and run it to the end.
C40_Witness ==
    /\ ncalls = 4
    /\ rres.op = "run" /\ rres.ok /\ ~rres.built
    /\ rres.kwargs.forward_only = "False"
    /\ rres.it0 > 0
    /\ prev.rres.op = "run" /\ prev.rres.ok /\ prev.rres.built
    /\ prev.rres.kwargs.forward_only = "True"
    /\ curr_iteration.iteration_id = iteration_id - 2
    /\ next_iteration = NoIteration
    /\ \E k \in 1..Len(log) : log[k].ev = "B"

====
